---- MODULE Spec2Model ----
(***************************************************************************)
(* A model of package pk: marshaling Go values as trees of content-        *)
(* addressed Perkeep blobs (Encoder.Encode) and back (Decoder.Decode).     *)
(*                                                                         *)
(* The encoder is src/unnamed/part_003, the decoder is the last revision   *)
(* held in src/unnamed/part_001 (lines 256-632, the one that decodes a     *)
(* struct through an intermediate struct type), parseTag is                 *)
(* src/unnamed/part_001 lines 641-687.  src/decode.go is an earlier         *)
(* revision of the decoder; its buildSlice, buildArray and buildMap are    *)
(* the same as the ones modelled here.                                     *)
(*                                                                         *)
(* A blob is a sequence of bytes.  A byte is a record [c, h]: c is the     *)
(* character, h is <<>>.  The text of a blobref ("sha224-...") is one      *)
(* atom [c |-> "sha224-", h |-> <<blob>>] that stands for the hash of      *)
(* blob: the hash is taken to be free of collisions.                       *)
(* Floating point kinds are outside the model.                             *)
(***************************************************************************)
EXTENDS Integers, Sequences, FiniteSets, TLC

VARIABLES store, enc, dec, re, call

vars == <<store, enc, dec, re, call>>

(***************************************************************************)
(* Bytes, blobs and blobrefs.                                              *)
(***************************************************************************)
Ch(c) == [c |-> c, h |-> <<>>]

Bytes(t) == [i \in 1..Len(t) |-> Ch(t[i])]

Chars(b) == [i \in 1..Len(b) |-> b[i].c]

\* blob.Ref{}: the zero, invalid ref.
ZeroRef == <<>>

\* The ref a content-addressed store gives a blob (blobserver.ReceiveString).
RefOf(blob) == <<blob>>

Valid(ref) == ref # ZeroRef

\* Ref.String(): the text of a valid ref, one atom.
RefText(ref) == [c |-> "sha224-", h |-> ref]

IsRefText(b) == b.c = "sha224-" /\ b.h # <<>>

\* A byte that is not valid UTF-8 on its own, and U+FFFD, the replacement rune.
BadByte == "xFF"

ReplacementRune == "uFFFD"

(***************************************************************************)
(* Go types.  el is <<T>> for slice, array, map (the value type; keys are  *)
(* strings) and ptr; n is the length of an array; fields are the fields of *)
(* a struct: [name, hasTag, tag, json, typ], where tag is the value of the *)
(* pk key of the struct tag and json the name a json key gives the field   *)
(* (<<>>: none).  Kind "ref" is blob.Ref.  hook tells that the type has    *)
(* the method PkMarshal and its pointer type the method PkUnmarshal.       *)
(***************************************************************************)
Prim(k) == [k |-> k, el |-> <<>>, n |-> 0, fields |-> <<>>, hook |-> FALSE]

TBool == Prim("bool")

TInt == Prim("int")

TInt8 == Prim("int8")

TString == Prim("string")

TRef == Prim("ref")

SliceOf(T) == [k |-> "slice", el |-> <<T>>, n |-> 0, fields |-> <<>>, hook |-> FALSE]

ArrayOf(n, T) == [k |-> "array", el |-> <<T>>, n |-> n, fields |-> <<>>, hook |-> FALSE]

MapOf(T) == [k |-> "map", el |-> <<T>>, n |-> 0, fields |-> <<>>, hook |-> FALSE]

PtrTo(T) == [k |-> "ptr", el |-> <<T>>, n |-> 0, fields |-> <<>>, hook |-> FALSE]

StructOf(fs) == [k |-> "struct", el |-> <<>>, n |-> 0, fields |-> fs, hook |-> FALSE]

Field(name, T) == [name |-> name, hasTag |-> FALSE, tag |-> <<>>, json |-> <<>>, typ |-> T]

Tagged(name, tag, T) == [name |-> name, hasTag |-> TRUE, tag |-> tag, json |-> <<>>, typ |-> T]

Elem(T) == T.el[1]

\* The type T given the methods PkMarshal and PkUnmarshal.
Hooked(T) == [T EXCEPT !.hook = TRUE]

IntKinds == {"int", "int8"}

\* The bit size strconv.ParseInt is given for each integer kind.
BitSize(k) == IF k = "int8" THEN 8 ELSE 64

(***************************************************************************)
(* Go values.  bool: BOOLEAN; int: an integer; string: a tuple of bytes;  *)
(* slice: [nil, a]; array: a tuple; map: [nil, m] with m a     *)
(* function of its keys; ptr: [nil, p] with p = <<pointee>>; struct: the   *)
(* tuple of its fields; ref: <<>> or <<blob>>.  Equality of two values of  *)
(* one type is reflect.DeepEqual.                                          *)
(***************************************************************************)
NilSlice == [nil |-> TRUE, a |-> <<>>]

MkSlice(a) == [nil |-> FALSE, a |-> a]

NilMap == [nil |-> TRUE, m |-> <<>>]

MkMap(m) == [nil |-> FALSE, m |-> m]

NilPtr == [nil |-> TRUE, p |-> <<>>]

AddrOf(v) == [nil |-> FALSE, p |-> <<v>>]

RECURSIVE Zero(_)
\* reflect.Zero
Zero(T) ==
  CASE T.k = "bool" -> FALSE
    [] T.k \in IntKinds -> 0
    [] T.k = "string" -> <<>>
    [] T.k = "ref" -> ZeroRef
    [] T.k = "slice" -> NilSlice
    [] T.k = "array" -> [i \in 1..T.n |-> Zero(Elem(T))]
    [] T.k = "map" -> NilMap
    [] T.k = "ptr" -> NilPtr
    [] T.k = "struct" -> [i \in 1..Len(T.fields) |-> Zero(T.fields[i].typ)]

\* reflect.Value.IsZero
IsZero(T, v) == v = Zero(T)

(***************************************************************************)
(* strconv.FormatInt and strconv.ParseInt, base 10, on tuples of            *)
(* characters.                                                             *)
(***************************************************************************)
DigitChars == <<"0", "1", "2", "3", "4", "5", "6", "7", "8", "9">>

IsDigit(c) == \E d \in 1..Len(DigitChars) : DigitChars[d] = c

DigitVal(c) == (CHOOSE d \in 1..Len(DigitChars) : DigitChars[d] = c) - 1

RECURSIVE Digits(_)
Digits(n) ==
  IF n < Len(DigitChars) THEN <<DigitChars[n + 1]>>
  ELSE Digits(n \div Len(DigitChars)) \o <<DigitChars[(n % Len(DigitChars)) + 1]>>

FormatInt(n) == IF n < 0 THEN <<"-">> \o Digits(-n) ELSE Digits(n)

RECURSIVE DigitsVal(_, _)
DigitsVal(s, acc) ==
  IF s = <<>> THEN acc ELSE DigitsVal(Tail(s), acc * Len(DigitChars) + DigitVal(Head(s)))

\* The values of a signed integer of the given bit size; 64 bits are beyond
\* every number of the model.
InRange(n, bits) == bits # BitSize("int8") \/ (n >= -128 /\ n <= 127)

\* ParseInt(s, 10, bits): [ok, n].
ParseInt(s, bits) ==
  LET signed == s # <<>> /\ Head(s) \in {"+", "-"}
      body == IF signed THEN Tail(s) ELSE s
      n == IF signed /\ Head(s) = "-" THEN -DigitsVal(body, 0) ELSE DigitsVal(body, 0)
  IN IF body = <<>> \/ \E i \in 1..Len(body) : ~IsDigit(body[i])
     THEN [ok |-> FALSE, n |-> 0]
     ELSE [ok |-> InRange(n, bits), n |-> IF InRange(n, bits) THEN n ELSE 0]

(***************************************************************************)
(* parseTag: the stored name and the options of a struct field.            *)
(***************************************************************************)
SplitMutant(t, sep) == <<t>>

RECURSIVE Split(_, _)
\* strings.Split(t, sep)
Split(t, sep) ==
  IF \A i \in 1..Len(t) : t[i] # sep THEN <<t>>
  ELSE LET i == CHOOSE j \in 1..Len(t) : t[j] = sep /\ \A l \in 1..(j - 1) : t[l] # sep
       IN <<SubSeq(t, 1, i - 1)>> \o Split(SubSeq(t, i + 1, Len(t)), sep)

NoOptions == [inline |-> FALSE, external |-> FALSE, omitEmpty |-> FALSE, omit |-> FALSE]

OptInline == <<"i", "n", "l", "i", "n", "e">>

OptExternal == <<"e", "x", "t", "e", "r", "n", "a", "l">>

OptOmitEmpty == <<"o", "m", "i", "t", "e", "m", "p", "t", "y">>

\* parseTag without its case "-".
parseTagMutant(f) ==
  IF ~f.hasTag \/ f.tag = <<>> THEN [name |-> f.name, o |-> NoOptions]
  ELSE LET items == Split(f.tag, ",")
           opts == {items[i] : i \in 2..Len(items)}
       IN [name |-> IF items[1] # <<>> THEN items[1] ELSE f.name,
           o |-> [inline |-> OptInline \in opts,
                  external |-> OptExternal \in opts,
                  omitEmpty |-> OptOmitEmpty \in opts,
                  omit |-> FALSE]]

\* parseTag without its case "external".
parseTagNoExternal(f) ==
  IF ~f.hasTag \/ f.tag = <<>> THEN [name |-> f.name, o |-> NoOptions]
  ELSE IF f.tag = <<"-">> THEN [name |-> f.name, o |-> [NoOptions EXCEPT !.omit = TRUE]]
  ELSE LET items == Split(f.tag, ",")
           opts == {items[i] : i \in 2..Len(items)}
       IN [name |-> IF items[1] # <<>> THEN items[1] ELSE f.name,
           o |-> [inline |-> OptInline \in opts,
                  external |-> FALSE,
                  omitEmpty |-> OptOmitEmpty \in opts,
                  omit |-> FALSE]]

\* parseTag(f): [name, o].
parseTag(f) ==
  IF ~f.hasTag \/ f.tag = <<>> THEN [name |-> f.name, o |-> NoOptions]
  ELSE IF f.tag = <<"-">> THEN [name |-> f.name, o |-> [NoOptions EXCEPT !.omit = TRUE]]
  ELSE LET items == Split(f.tag, ",")
           opts == {items[i] : i \in 2..Len(items)}
       IN [name |-> IF items[1] # <<>> THEN items[1] ELSE f.name,
           o |-> [inline |-> OptInline \in opts,
                  external |-> OptExternal \in opts,
                  omitEmpty |-> OptOmitEmpty \in opts,
                  omit |-> FALSE]]

(***************************************************************************)
(* The order of bytes, for sorting the keys of a JSON object as            *)
(* encoding/json does.                                                     *)
(***************************************************************************)
ByteOrder ==
  <<"-", "0", "1", "2", "3", "4", "5", "6", "7", "8", "9",
    "A", "B", "C", "D", "E", "F", "G", "H", "I", "J", "K", "L", "M",
    "N", "O", "P", "Q", "R", "S", "T", "U", "V", "W", "X", "Y", "Z",
    "a", "b", "c", "d", "e", "f", "g", "h", "i", "j", "k", "l", "m",
    "n", "o", "p", "q", "r", "s", "sha224-", "t", "u", "v", "w", "x", "y", "z",
    "uFFFD", "xFF">>

Rank(b) == CHOOSE i \in 1..Len(ByteOrder) : ByteOrder[i] = b.c

RECURSIVE Less(_, _)
\* a < b for two strings of bytes.
Less(a, b) ==
  IF b = <<>> THEN FALSE
  ELSE IF a = <<>> THEN TRUE
  ELSE IF Head(a) = Head(b) THEN Less(Tail(a), Tail(b))
  ELSE Rank(Head(a)) < Rank(Head(b))

\* The keys as the map iteration gave them, unsorted.
SortKeysMutant(ks) == ks

RECURSIVE SortKeys(_)
\* The keys ks, given in the order a map iteration produced them, sorted
\* (encoding/json sorts the keys of every map it encodes).
SortKeys(ks) ==
  IF ks = <<>> THEN <<>>
  ELSE LET i == CHOOSE j \in 1..Len(ks) : \A l \in 1..Len(ks) : ~Less(ks[l], ks[j])
       IN <<ks[i]>> \o SortKeys([l \in 1..(Len(ks) - 1) |-> IF l < i THEN ks[l] ELSE ks[l + 1]])

(***************************************************************************)
(* JSON values, and their text as encoding/json writes it (no indent, no   *)
(* HTML escaping: the Encoder's defaults).                                 *)
(***************************************************************************)
JNullMutant == [t |-> "arr", a |-> <<>>]

JNull == [t |-> "null"]

JBool(b) == [t |-> "bool", b |-> b]

JNum(digits) == [t |-> "num", n |-> digits]

JStr(bytes) == [t |-> "str", s |-> bytes]

JArr(items) == [t |-> "arr", a |-> items]

\* o is a sequence of members [k, v], in the order they are written.
JObj(members) == [t |-> "obj", o |-> members]

Quote == Ch("\"")

Backslash == Ch("\\")

EscapedReplacement == Bytes(<<"\\", "u", "f", "f", "f", "d">>)

RECURSIVE Flatten(_)
Flatten(ss) == IF ss = <<>> THEN <<>> ELSE Head(ss) \o Flatten(Tail(ss))

RECURSIVE Join(_, _)
Join(ss, sep) ==
  IF ss = <<>> THEN <<>>
  ELSE IF Len(ss) = 1 THEN ss[1]
  ELSE ss[1] \o sep \o Join(Tail(ss), sep)

\* One byte of a string inside a JSON string literal: a byte that is not
\* valid UTF-8 is written as the escape of U+FFFD.
EscapeByte(b) ==
  IF b.c = BadByte THEN EscapedReplacement
  ELSE IF b = Quote \/ b = Backslash THEN <<Backslash, b>>
  ELSE <<b>>

JSONString(s) == <<Quote>> \o Flatten([i \in 1..Len(s) |-> EscapeByte(s[i])]) \o <<Quote>>

RECURSIVE JSONBytes(_)
\* The text of a JSON value.
JSONBytes(j) ==
  CASE j.t = "null" -> Bytes(<<"n", "u", "l", "l">>)
    [] j.t = "bool" -> IF j.b THEN Bytes(<<"t", "r", "u", "e">>)
                       ELSE Bytes(<<"f", "a", "l", "s", "e">>)
    [] j.t = "num" -> Bytes(j.n)
    [] j.t = "str" -> JSONString(j.s)
    [] j.t = "arr" ->
         <<Ch("[")>> \o Join([i \in 1..Len(j.a) |-> JSONBytes(j.a[i])], <<Ch(",")>>) \o <<Ch("]")>>
    [] j.t = "obj" ->
         <<Ch("{")>>
         \o Join([i \in 1..Len(j.o) |-> JSONString(j.o[i].k) \o <<Ch(":")>> \o JSONBytes(j.o[i].v)],
                 <<Ch(",")>>)
         \o <<Ch("}")>>

\* json.Encoder.Encode: the text of the value and a newline.
JSONEncode(j) == JSONBytes(j) \o <<Ch("\n")>>

\* Ref.MarshalJSON: the ref's text as a string, null for the zero ref.
JRef(ref) == IF Valid(ref) THEN JStr(<<RefText(ref)>>) ELSE JNull

(***************************************************************************)
(* Reading one JSON value from a blob, as json.Decoder.Decode does: white  *)
(* space is skipped, the first value is read, what follows it is left      *)
(* unread.  A result is [ok, j, i]: the value and the position after it.   *)
(***************************************************************************)
ParseFail == [ok |-> FALSE, j |-> JNull, i |-> 0]

ParseOk(j, i) == [ok |-> TRUE, j |-> j, i |-> i]

\* The character at position i, "" past the end.
At(b, i) == IF i <= Len(b) THEN b[i].c ELSE ""

HasAt(b, i, chars) ==
  /\ i + Len(chars) - 1 <= Len(b)
  /\ \A l \in 1..Len(chars) : b[i + l - 1] = Ch(chars[l])

RECURSIVE SkipWS(_, _)
SkipWS(b, i) == IF At(b, i) \in {" ", "\n"} THEN SkipWS(b, i + 1) ELSE i

RECURSIVE NumEnd(_, _)
NumEnd(b, i) == IF IsDigit(At(b, i)) THEN NumEnd(b, i + 1) ELSE i

\* A number at position i: -? (0 | [1-9][0-9]*).
ParseNumber(b, i) ==
  LET d == IF At(b, i) = "-" THEN i + 1 ELSE i
      e == IF At(b, d) = "0" THEN d + 1 ELSE NumEnd(b, d)
  IN IF e = d THEN ParseFail ELSE ParseOk(JNum(Chars(SubSeq(b, i, e - 1))), e)

RECURSIVE ParseString(_, _, _)
\* A string literal whose opening quote is before position i.
ParseString(b, i, acc) ==
  IF i > Len(b) \/ At(b, i) = "\n" THEN ParseFail
  ELSE IF b[i] = Quote THEN ParseOk(JStr(acc), i + 1)
  ELSE IF b[i] = Backslash THEN
    IF i < Len(b) /\ (b[i + 1] = Quote \/ b[i + 1] = Backslash)
    THEN ParseString(b, i + 2, Append(acc, b[i + 1]))
    ELSE IF HasAt(b, i, Chars(EscapedReplacement))
    THEN ParseString(b, i + Len(EscapedReplacement), Append(acc, Ch(ReplacementRune)))
    ELSE ParseFail
  ELSE IF b[i].c = BadByte THEN ParseString(b, i + 1, Append(acc, Ch(ReplacementRune)))
  ELSE ParseString(b, i + 1, Append(acc, b[i]))

RECURSIVE ParseValue(_, _)
RECURSIVE ParseElems(_, _, _)
RECURSIVE ParseMembers(_, _, _)

ParseValue(b, i) ==
  LET c == At(b, i)
  IN CASE c = "n" -> IF HasAt(b, i, <<"n", "u", "l", "l">>) THEN ParseOk(JNull, i + 4)
                     ELSE ParseFail
       [] c = "t" -> IF HasAt(b, i, <<"t", "r", "u", "e">>) THEN ParseOk(JBool(TRUE), i + 4)
                     ELSE ParseFail
       [] c = "f" -> IF HasAt(b, i, <<"f", "a", "l", "s", "e">>) THEN ParseOk(JBool(FALSE), i + 5)
                     ELSE ParseFail
       [] c = "\"" -> ParseString(b, i + 1, <<>>)
       [] c = "-" \/ IsDigit(c) -> ParseNumber(b, i)
       [] c = "[" -> LET k == SkipWS(b, i + 1)
                     IN IF At(b, k) = "]" THEN ParseOk(JArr(<<>>), k + 1)
                        ELSE ParseElems(b, k, <<>>)
       [] c = "{" -> LET k == SkipWS(b, i + 1)
                     IN IF At(b, k) = "}" THEN ParseOk(JObj(<<>>), k + 1)
                        ELSE ParseMembers(b, k, <<>>)
       [] OTHER -> ParseFail

\* The elements of an array from position i on, after those in acc.
ParseElems(b, i, acc) ==
  LET v == ParseValue(b, i)
      k == SkipWS(b, v.i)
  IN IF ~v.ok THEN ParseFail
     ELSE IF At(b, k) = "," THEN ParseElems(b, SkipWS(b, k + 1), Append(acc, v.j))
     ELSE IF At(b, k) = "]" THEN ParseOk(JArr(Append(acc, v.j)), k + 1)
     ELSE ParseFail

\* The members of an object from position i on, after those in acc.
ParseMembers(b, i, acc) ==
  LET key == IF At(b, i) = "\"" THEN ParseString(b, i + 1, <<>>) ELSE ParseFail
      c == SkipWS(b, key.i)
      v == IF key.ok /\ At(b, c) = ":" THEN ParseValue(b, SkipWS(b, c + 1)) ELSE ParseFail
      k == SkipWS(b, v.i)
      m == [k |-> key.j.s, v |-> v.j]
  IN IF ~v.ok THEN ParseFail
     ELSE IF At(b, k) = "," THEN ParseMembers(b, SkipWS(b, k + 1), Append(acc, m))
     ELSE IF At(b, k) = "}" THEN ParseOk(JObj(Append(acc, m)), k + 1)
     ELSE ParseFail

\* The first JSON value of blob b; an empty or blank blob is io.EOF.
JSONRead(b) == LET i == SkipWS(b, 1) IN IF i > Len(b) THEN ParseFail ELSE ParseValue(b, i)

(***************************************************************************)
(* encoding/json on Go values: json.Marshal (ToJSON) and the typed         *)
(* unmarshal of a JSON value into a Go value (FromJSON).                   *)
(***************************************************************************)
RECURSIVE Ascending(_)
\* The strings of the set S from the least to the greatest.
Ascending(S) ==
  IF S = {} THEN <<>>
  ELSE LET k == CHOOSE k \in S : \A l \in S : ~Less(l, k)
       IN <<k>> \o Ascending(S \ {k})

Reverse(s) == [i \in 1..Len(s) |-> s[Len(s) + 1 - i]]

\* The keys of map m in the order a map iteration visits them: Go leaves
\* the order open, ord picks one of two.
KeysInOrder(m, ord) ==
  IF ord = "ascending" THEN Ascending(DOMAIN m) ELSE Reverse(Ascending(DOMAIN m))

\* The name encoding/json knows a struct field by.
JSONName(f) == Bytes(IF f.json # <<>> THEN f.json ELSE f.name)

RECURSIVE ToJSON(_, _, _)
ToJSON(T, v, ord) ==
  CASE T.k = "bool" -> JBool(v)
    [] T.k \in IntKinds -> JNum(FormatInt(v))
    [] T.k = "string" -> JStr(v)
    [] T.k = "ref" -> JRef(v)
    [] T.k = "slice" ->
         IF v.nil THEN JNull
         ELSE JArr([i \in 1..Len(v.a) |-> ToJSON(Elem(T), v.a[i], ord)])
    [] T.k = "array" -> JArr([i \in 1..Len(v) |-> ToJSON(Elem(T), v[i], ord)])
    [] T.k = "map" ->
         IF v.nil THEN JNull
         ELSE LET ks == SortKeys(KeysInOrder(v.m, ord))
              IN JObj([i \in 1..Len(ks) |-> [k |-> ks[i], v |-> ToJSON(Elem(T), v.m[ks[i]], ord)]])
    [] T.k = "ptr" -> IF v.nil THEN JNull ELSE ToJSON(Elem(T), v.p[1], ord)
    [] T.k = "struct" ->
         JObj([i \in 1..Len(T.fields) |->
                 [k |-> JSONName(T.fields[i]), v |-> ToJSON(T.fields[i].typ, v[i], ord)]])

RECURSIVE FromJSON(_, _, _)
RECURSIVE FromJSONElems(_, _, _, _)
RECURSIVE FromJSONMap(_, _, _, _)
RECURSIVE FromJSONFields(_, _, _, _)

\* Ref.UnmarshalJSON on a JSON string: the string must be the text of a ref,
\* and the receiver must be the zero ref.
RefFromJSON(j, cur) ==
  IF j.t = "str" /\ Len(j.s) = 1 /\ IsRefText(j.s[1]) /\ ~Valid(cur)
  THEN [ok |-> TRUE, v |-> j.s[1].h]
  ELSE [ok |-> FALSE, v |-> cur]

\* The JSON value j unmarshaled into a value of type T that holds cur:
\* [ok, v].
FromJSON(T, j, cur) ==
  IF j.t = "null" THEN
    [ok |-> TRUE, v |-> IF T.k \in {"slice", "map", "ptr"} THEN Zero(T) ELSE cur]
  ELSE
    CASE T.k = "bool" -> IF j.t = "bool" THEN [ok |-> TRUE, v |-> j.b]
                         ELSE [ok |-> FALSE, v |-> cur]
      [] T.k \in IntKinds ->
           IF j.t = "num" /\ ParseInt(j.n, BitSize(T.k)).ok
           THEN [ok |-> TRUE, v |-> ParseInt(j.n, BitSize(T.k)).n]
           ELSE [ok |-> FALSE, v |-> cur]
      [] T.k = "string" -> IF j.t = "str" THEN [ok |-> TRUE, v |-> j.s]
                           ELSE [ok |-> FALSE, v |-> cur]
      [] T.k = "ref" -> RefFromJSON(j, cur)
      [] T.k = "slice" ->
           IF j.t # "arr" THEN [ok |-> FALSE, v |-> cur]
           ELSE LET r == FromJSONElems(Elem(T), j.a, 1, <<>>)
                IN [ok |-> r.ok, v |-> IF r.ok THEN MkSlice(r.v) ELSE cur]
      [] T.k = "array" ->
           IF j.t # "arr" THEN [ok |-> FALSE, v |-> cur]
           ELSE LET r == FromJSONElems(Elem(T), SubSeq(j.a, 1, T.n), 1, <<>>)
                IN [ok |-> r.ok,
                    v |-> IF r.ok
                          THEN [i \in 1..T.n |-> IF i <= Len(r.v) THEN r.v[i] ELSE Zero(Elem(T))]
                          ELSE cur]
      [] T.k = "map" ->
           IF j.t # "obj" THEN [ok |-> FALSE, v |-> cur]
           ELSE FromJSONMap(Elem(T), j.o, 1, IF cur.nil THEN MkMap(<<>>) ELSE cur)
      [] T.k = "ptr" ->
           LET r == FromJSON(Elem(T), j, IF cur.nil THEN Zero(Elem(T)) ELSE cur.p[1])
           IN [ok |-> r.ok, v |-> IF r.ok THEN AddrOf(r.v) ELSE cur]
      [] T.k = "struct" ->
           IF j.t # "obj" THEN [ok |-> FALSE, v |-> cur]
           ELSE FromJSONFields(T, j.o, 1, cur)

\* The elements a[i..] of a JSON array, each into a fresh element of type T.
FromJSONElems(T, a, i, acc) ==
  IF i > Len(a) THEN [ok |-> TRUE, v |-> acc]
  ELSE LET r == FromJSON(T, a[i], Zero(T))
       IN IF r.ok THEN FromJSONElems(T, a, i + 1, Append(acc, r.v))
          ELSE [ok |-> FALSE, v |-> acc]

\* The members o[i..] of a JSON object into the map cur with values of type T.
FromJSONMap(T, o, i, cur) ==
  IF i > Len(o) THEN [ok |-> TRUE, v |-> cur]
  ELSE LET r == FromJSON(T, o[i].v, Zero(T))
           ks == DOMAIN cur.m \cup {o[i].k}
       IN IF r.ok
          THEN FromJSONMap(T, o, i + 1,
                           MkMap([k \in ks |-> IF k = o[i].k THEN r.v ELSE cur.m[k]]))
          ELSE [ok |-> FALSE, v |-> cur]

\* The members o[i..] of a JSON object into the struct cur of type T.  A key
\* that names no field is skipped, and so is one that names two fields.
FromJSONFields(T, o, i, cur) ==
  IF i > Len(o) THEN [ok |-> TRUE, v |-> cur]
  ELSE LET fs == {f \in 1..Len(T.fields) : JSONName(T.fields[f]) = o[i].k}
       IN IF Cardinality(fs) # 1 THEN FromJSONFields(T, o, i + 1, cur)
          ELSE LET f == CHOOSE x \in fs : TRUE
                   r == FromJSON(T.fields[f].typ, o[i].v, cur[f])
               IN IF r.ok THEN FromJSONFields(T, o, i + 1, [cur EXCEPT ![f] = r.v])
                  ELSE [ok |-> FALSE, v |-> cur]

(***************************************************************************)
(* Encoder.Encode.  A result is [ref, err, puts]: puts is the sequence of  *)
(* the blobs given to the store so far, each with the path of the value it *)
(* was stored for (<<>> is the value Encode was called with, <<"f", i>>    *)
(* its i-th field, <<"e", i>> its i-th element, <<"k", key>> its value     *)
(* under key).  env.ord is the order map iterations take.                  *)
(***************************************************************************)
NoErr == ""

\* What a call runs in: ord is the order its map iterations take; the
\* store fails the call's store operation number failAt (0: none); ctx is
\* cancelled before the call's store operation number cancelAt (0: never),
\* and honours tells whether the store looks at ctx.
Env(ord) == [ord |-> ord, failAt |-> 0, cancelAt |-> 0, honours |-> TRUE]

\* The store failed a Put.
ErrPut == "storing"

\* ctx.Err() of a cancelled ctx, returned by a store that looks at ctx.
ErrCanceled == "context canceled"

\* The store's answer to the n-th store operation of a call, e being the
\* error of a failure.
StoreErr(env, n, e) ==
  IF env.failAt = n THEN e
  ELSE IF env.cancelAt # 0 /\ n >= env.cancelAt /\ env.honours THEN ErrCanceled
  ELSE NoErr

ErrUnsupportedType == "unsupported type"

\* obj.(string) on a value whose dynamic type is not string.
ErrPanic == "panic"

Failed(err, puts) == [ref |-> ZeroRef, err |-> err, puts |-> puts]

ReceiveStringSwallow(env, puts, path, s) ==
  [ref |-> RefOf(s), err |-> NoErr, puts |-> Append(puts, [path |-> path, blob |-> s])]

\* blobserver.ReceiveString(ctx, e.dst, s)
ReceiveString(env, puts, path, s) ==
  LET tried == Append(puts, [path |-> path, blob |-> s])
      err == StoreErr(env, Len(tried), ErrPut)
  IN [ref |-> IF err = NoErr THEN RefOf(s) ELSE ZeroRef, err |-> err, puts |-> tried]

\* The blobs the store holds of the Puts a call made.
Stored(env, puts) ==
  {puts[n].blob : n \in {i \in 1..Len(puts) : StoreErr(env, i, ErrPut) = NoErr}}

\* A Marshaler of the model writes a bool as "Y" or "N" and a slice of
\* bools as "[" and the letters of its elements ("-" when nil).
HookLetter(b) == IF b THEN "Y" ELSE "N"

HookBlob(T, v) ==
  IF T.k = "bool" THEN Bytes(<<HookLetter(v)>>)
  ELSE IF v.nil THEN Bytes(<<"-">>)
  ELSE Bytes(<<"[">> \o [i \in 1..Len(v.a) |-> HookLetter(v.a[i])])

\* The path of the store calls a hook makes for the value at path.
HookPath(path) == Append(path, <<"hook", 0>>)

\* m.PkMarshal(ctx, e.dst) of the model's Marshalers: one Put.
PkMarshal(T, obj, path, env, puts) ==
  ReceiveString(env, puts, HookPath(path), HookBlob(T, obj))

\* obj.(Marshaler) on a value of type T, obj.(Unmarshaler) on a pointer to it.
IsHooked(T) == T.hook

RECURSIVE Deref(_, _)
\* Dereference pointers, pointers to pointers, etc.
Deref(T, v) == IF T.k = "ptr" /\ ~v.nil THEN Deref(Elem(T), v.p[1]) ELSE [T |-> T, v |-> v]

BoolBlobMutant(b) == IF b THEN Bytes(<<"1">>) ELSE Bytes(<<"0">>)

\* The empty blob is false, all other blobs are true.
BoolBlob(b) == IF b THEN Bytes(<<"t", "r", "u", "e">>) ELSE <<>>

\* m[name] = x on the entries of a Go map kept in insertion order.
SetEntry(m, e) ==
  IF \E i \in 1..Len(m) : m[i].k = e.k
  THEN [i \in 1..Len(m) |-> IF m[i].k = e.k THEN e ELSE m[i]]
  ELSE Append(m, e)

\* json.Encoder.Encode(m) for the map[string]interface{} of a struct.
EncodeEntries(m, ord) ==
  LET ks == SortKeys([i \in 1..Len(m) |-> m[i].k])
      at(k) == CHOOSE i \in 1..Len(m) : m[i].k = k
  IN JSONEncode(JObj([i \in 1..Len(ks) |->
       [k |-> ks[i], v |-> ToJSON(m[at(ks[i])].T, m[at(ks[i])].v, ord)]]))

OmitOnlySkipped(o, T, v) == o.omit

OmitFieldMutant(o, T, v) == o.omit \/ (o.omitEmpty /\ T.k \in {"slice", "map", "ptr"} /\ v.nil)

\* Whether Encode leaves a struct field out of the struct's blob.
OmitField(o, T, v) == o.omit \/ (o.omitEmpty /\ IsZero(T, v))

RECURSIVE Encode(_, _, _, _, _)
RECURSIVE encodeSliceOrArray(_, _, _, _, _, _, _)
RECURSIVE encodeMap(_, _, _, _, _, _, _)
RECURSIVE EncodeFields(_, _, _, _, _, _, _)

Encode(T, obj, path, env, puts) ==
  LET d == Deref(T, obj)
      k == d.T.k
      v == d.v
  IN IF IsHooked(T) THEN PkMarshal(T, obj, path, env, puts)
     ELSE IF k \in {"map", "slice"} /\ v.nil THEN ReceiveString(env, puts, path, <<>>)
     ELSE
       CASE k = "bool" -> ReceiveString(env, puts, path, BoolBlob(v))
         [] k \in IntKinds -> ReceiveString(env, puts, path, Bytes(FormatInt(v)))
         [] k \in {"array", "slice"} ->
              LET r == encodeSliceOrArray(Elem(d.T), IF k = "slice" THEN v.a ELSE v, 1,
                                          NilSlice, path, env, puts)
              IN IF r.err # NoErr THEN Failed(r.err, r.puts)
                 ELSE ReceiveString(env, r.puts, path, JSONEncode(ToJSON(SliceOf(TRef), r.refs, env.ord)))
         [] k = "map" ->
              LET r == encodeMap(Elem(d.T), v.m, KeysInOrder(v.m, env.ord), MkMap(<<>>),
                                 path, env, puts)
              IN IF r.err # NoErr THEN Failed(r.err, r.puts)
                 ELSE ReceiveString(env, r.puts, path, JSONEncode(ToJSON(MapOf(TRef), r.refs, env.ord)))
         [] k = "string" ->
              IF T.k = "string" THEN ReceiveString(env, puts, path, obj)
              ELSE Failed(ErrPanic, puts)
         [] k = "struct" ->
              LET r == EncodeFields(d.T, v, 1, <<>>, path, env, puts)
              IN IF r.err # NoErr THEN Failed(r.err, r.puts)
                 ELSE ReceiveString(env, r.puts, path, EncodeEntries(r.m, env.ord))
         [] OTHER -> Failed(ErrUnsupportedType, puts)

encodeSliceKeepGoing(T, items, i, refs, path, env, puts) ==
  IF i > Len(items) THEN [refs |-> refs, err |-> NoErr, puts |-> puts]
  ELSE LET r == Encode(T, items[i], Append(path, <<"e", i>>), env, puts)
       IN encodeSliceOrArray(T, items, i + 1,
                             IF r.err = NoErr THEN MkSlice(Append(refs.a, r.ref)) ELSE refs,
                             path, env, r.puts)

\* The refs of the elements items[i..] of a slice or array of element type
\* T, appended to refs: [refs, err, puts].
encodeSliceOrArray(T, items, i, refs, path, env, puts) ==
  IF i > Len(items) THEN [refs |-> refs, err |-> NoErr, puts |-> puts]
  ELSE LET r == Encode(T, items[i], Append(path, <<"e", i>>), env, puts)
       IN IF r.err # NoErr THEN [refs |-> NilSlice, err |-> r.err, puts |-> r.puts]
          ELSE encodeSliceOrArray(T, items, i + 1, MkSlice(Append(refs.a, r.ref)),
                                  path, env, r.puts)

\* The map[K]blob.Ref of the refs of the values of m, whose keys the
\* iteration still has to visit are ks: [refs, err, puts].
encodeMap(T, m, ks, mm, path, env, puts) ==
  IF ks = <<>> THEN [refs |-> mm, err |-> NoErr, puts |-> puts]
  ELSE LET mk == Head(ks)
           r == Encode(T, m[mk], Append(path, <<"k", mk>>), env, puts)
       IN IF r.err # NoErr THEN [refs |-> NilMap, err |-> r.err, puts |-> r.puts]
          ELSE encodeMap(T, m, Tail(ks),
                         MkMap([x \in DOMAIN mm.m \cup {mk} |-> IF x = mk THEN r.ref ELSE mm.m[x]]),
                         path, env, r.puts)

\* The loop over the fields i.. of struct v of type T, m being the entries
\* of the map[string]interface{} so far: [m, err, puts].
EncodeFields(T, v, i, m, path, env, puts) ==
  IF i > Len(T.fields) THEN [m |-> m, err |-> NoErr, puts |-> puts]
  ELSE
    LET tf == T.fields[i]
        name == Bytes(parseTag(tf).name)
        o == parseTag(tf).o
        vf == v[i]
        fpath == Append(path, <<"f", i>>)
    IN IF OmitField(o, tf.typ, vf) THEN EncodeFields(T, v, i + 1, m, path, env, puts)
       ELSE IF o.inline
       THEN EncodeFields(T, v, i + 1, SetEntry(m, [k |-> name, T |-> tf.typ, v |-> vf]),
                         path, env, puts)
       ELSE IF ~o.external /\ tf.typ.k \in {"slice", "array"}
       THEN LET r == encodeSliceOrArray(Elem(tf.typ), IF tf.typ.k = "slice" THEN vf.a ELSE vf, 1,
                                        NilSlice, fpath, env, puts)
            IN IF r.err # NoErr THEN [m |-> m, err |-> r.err, puts |-> r.puts]
               ELSE EncodeFields(T, v, i + 1,
                                 SetEntry(m, [k |-> name, T |-> SliceOf(TRef), v |-> r.refs]),
                                 path, env, r.puts)
       ELSE IF ~o.external /\ tf.typ.k = "map"
       THEN LET r == encodeMap(Elem(tf.typ), vf.m, KeysInOrder(vf.m, env.ord), MkMap(<<>>),
                               fpath, env, puts)
            IN IF r.err # NoErr THEN [m |-> m, err |-> r.err, puts |-> r.puts]
               ELSE EncodeFields(T, v, i + 1,
                                 SetEntry(m, [k |-> name, T |-> MapOf(TRef), v |-> r.refs]),
                                 path, env, r.puts)
       ELSE LET r == Encode(tf.typ, vf, fpath, env, puts)
            IN IF r.err # NoErr THEN [m |-> m, err |-> r.err, puts |-> r.puts]
               ELSE EncodeFields(T, v, i + 1,
                                 SetEntry(m, [k |-> name, T |-> TRef, v |-> r.ref]),
                                 path, env, r.puts)

(***************************************************************************)
(* Decoder.Decode.  obj is the pointer Decode is given, T its type; st is  *)
(* the set of blobs the store holds.  A result is [obj, err, fetches]: obj *)
(* is the pointer with what it points to afterwards, fetches the sequence  *)
(* of the calls of Fetch so far, each with the path of the destination it  *)
(* was made for.                                                           *)
(***************************************************************************)
ErrNotPointer == "not pointer"

ErrNilPointer == "nil pointer"

\* d.src.Fetch failed: the store holds no blob for the ref.
ErrFetch == "fetching from src"

\* ErrDecoding, "produced when a blob can't be unmarshaled into a given Go
\* object".
ErrDecoding == "decoding"

\* strconv.ParseInt failed.
ErrParse == "parsing int"

\* The JSON decoder failed on the blob.
ErrJSON == "JSON-decoding"

\* The blobs of a store are fetched by the refs Put gave them.
Fetchable(st, ref) == Valid(ref) /\ ref[1] \in st

\* d.src.Fetch(ctx, ref), the n-th store operation of a call: its error.
FetchErr(env, n, st, ref) ==
  IF StoreErr(env, n, ErrFetch) # NoErr THEN StoreErr(env, n, ErrFetch)
  ELSE IF ~Fetchable(st, ref) THEN ErrFetch
  ELSE NoErr

\* The struct type Decode builds to JSON-unmarshal the blob of a struct of
\* type T into: reflect.StructOf(ftypes).
IntermediateField(tf) ==
  LET name == parseTag(tf).name
      o == parseTag(tf).o
      typ == IF o.omit \/ o.inline THEN tf.typ
             ELSE IF ~o.external /\ tf.typ.k \in {"slice", "array"} THEN SliceOf(TRef)
             ELSE IF ~o.external /\ tf.typ.k = "map" THEN MapOf(TRef)
             ELSE TRef
  IN [tf EXCEPT !.json = IF tf.json # <<>> THEN tf.json ELSE name, !.typ = typ]

IntermediateTyp(T) == StructOf([i \in 1..Len(T.fields) |-> IntermediateField(T.fields[i])])

\* The blob s JSON-decoded into a fresh value of type T: [ok, v].
JSONDecode(T, s) ==
  LET pr == JSONRead(s)
  IN IF pr.ok THEN FromJSON(T, pr.j, Zero(T)) ELSE [ok |-> FALSE, v |-> Zero(T)]

Truncated(slice) == [slice EXCEPT !.a = <<>>]

RECURSIVE Decode(_, _, _, _, _, _, _)
RECURSIVE buildSlice(_, _, _, _, _, _, _, _, _)
RECURSIVE buildArray(_, _, _, _, _, _, _, _)
RECURSIVE buildMap(_, _, _, _, _, _, _, _)
RECURSIVE DecodeFields(_, _, _, _, _, _, _, _)

ArraySlotMutant(T, arr, i) == arr[i]

\* el.Set(zero): what slot i of the array holds before it is decoded into.
ArraySlot(T, arr, i) == Zero(T)

\* The error of an Unmarshaler that does not know the blob.
ErrHook == "unmarshaler"

\* What the model's Unmarshalers read from the blob s: [ok, v].
HookValue(T, s) ==
  LET cs == Chars(s)
      letters == \A i \in 1..Len(cs) : i > 1 => cs[i] \in {"Y", "N"}
  IN IF T.k = "bool"
     THEN [ok |-> cs \in {<<"Y">>, <<"N">>}, v |-> cs = <<"Y">>]
     ELSE IF cs = <<"-">> THEN [ok |-> TRUE, v |-> NilSlice]
     ELSE IF cs # <<>> /\ cs[1] = "[" /\ letters
     THEN [ok |-> TRUE, v |-> MkSlice([i \in 1..(Len(cs) - 1) |-> cs[i + 1] = "Y"])]
     ELSE [ok |-> FALSE, v |-> NilSlice]

\* u.PkUnmarshal(ctx, d.src, ref) of the model's Unmarshalers, obj being a
\* pointer to a value of type T: one Fetch.
PkUnmarshal(T, obj, ref, path, env, st, fetches) ==
  LET fs == Append(fetches, [path |-> HookPath(path), ref |-> ref])
      r == HookValue(T, ref[1])
      ferr == FetchErr(env, Len(fs), st, ref)
  IN IF ferr # NoErr THEN [obj |-> obj, err |-> ferr, fetches |-> fs]
     ELSE IF ~r.ok THEN [obj |-> obj, err |-> ErrHook, fetches |-> fs]
     ELSE [obj |-> AddrOf(r.v), err |-> NoErr, fetches |-> fs]

PtrTargetFresh(T, cur) == AddrOf(Zero(Elem(T)))

\* What the pointer cur of type T points Decode to: a new zero value that
\* the destination is set to when cur is nil, and what cur points to
\* already when it is not.
PtrTarget(T, cur) == IF cur.nil THEN AddrOf(Zero(Elem(T))) ELSE cur

CheckDestMutant(T, obj) ==
  IF T.k # "ptr" THEN ErrNotPointer ELSE IF obj.nil THEN ErrNotPointer ELSE NoErr

\* The error Decode returns for a destination obj of type T before it
\* fetches anything.
CheckDest(T, obj) ==
  IF T.k # "ptr" THEN ErrNotPointer ELSE IF obj.nil THEN ErrNilPointer ELSE NoErr

Decode(T, obj, ref, path, env, st, fetches) ==
  IF T.k = "ptr" /\ IsHooked(Elem(T)) THEN PkUnmarshal(Elem(T), obj, ref, path, env, st, fetches)
  ELSE IF CheckDest(T, obj) # NoErr
  THEN [obj |-> obj, err |-> CheckDest(T, obj), fetches |-> fetches]
  ELSE
    LET fs == Append(fetches, [path |-> path, ref |-> ref])
        s == ref[1]
        elTyp == Elem(T)
        cur == obj.p[1]
        Done(v) == [obj |-> AddrOf(v), err |-> NoErr, fetches |-> fs]
        Fail(e) == [obj |-> obj, err |-> e, fetches |-> fs]
        Built(r) == [obj |-> AddrOf(r.v), err |-> r.err, fetches |-> r.fetches]
    IN IF FetchErr(env, Len(fs), st, ref) # NoErr THEN Fail(FetchErr(env, Len(fs), st, ref))
       ELSE
         CASE elTyp.k = "bool" -> Done(Len(s) > 0)
           [] elTyp.k \in IntKinds ->
                LET n == ParseInt(Chars(s), BitSize(elTyp.k))
                IN IF n.ok THEN Done(n.n) ELSE Fail(ErrParse)
           [] elTyp.k = "array" ->
                LET refs == JSONDecode(SliceOf(TRef), s)
                IN IF ~refs.ok THEN Fail(ErrJSON)
                   ELSE Built(buildArray(Elem(elTyp), cur, refs.v.a, 1, path, env, st, fs))
           [] elTyp.k = "slice" ->
                LET refs == JSONDecode(SliceOf(TRef), s)
                IN IF ~refs.ok THEN Fail(ErrJSON)
                   ELSE Built(buildSlice(Elem(elTyp), cur, refs.v.a, 1, <<>>, path, env, st, fs))
           [] elTyp.k = "map" ->
                LET mm == JSONDecode(MapOf(TRef), s)
                IN IF ~mm.ok THEN Fail(ErrJSON)
                   ELSE Built(buildMap(Elem(elTyp), cur, mm.v.m, KeysInOrder(mm.v.m, env.ord),
                                       path, env, st, fs))
           [] elTyp.k = "string" -> Done(s)
           [] elTyp.k = "struct" ->
                LET is == JSONDecode(IntermediateTyp(elTyp), s)
                IN IF ~is.ok THEN Fail(ErrJSON)
                   ELSE Built(DecodeFields(elTyp, cur, is.v, 1, path, env, st, fs))
           [] elTyp.k = "ptr" ->
                LET ptr == PtrTarget(elTyp, cur)
                    r == Decode(elTyp, ptr, ref, path, env, st, fs)
                IN [obj |-> AddrOf(r.obj), err |-> r.err, fetches |-> r.fetches]
           [] OTHER -> Fail(ErrUnsupportedType)

\* buildSlice: slice is the destination, acc the elements decoded from
\* refs[1..i-1]: [v, err, fetches].  The length of the destination is set to
\* 0 first; it is given the decoded elements only when every ref decoded.
buildSlice(T, slice, refs, i, acc, path, env, st, fetches) ==
  IF i > Len(refs)
  THEN [v |-> IF refs = <<>> THEN Truncated(slice) ELSE MkSlice(acc), err |-> NoErr,
        fetches |-> fetches]
  ELSE LET r == Decode(PtrTo(T), AddrOf(Zero(T)), refs[i], Append(path, <<"e", i>>),
                       env, st, fetches)
       IN IF r.err # NoErr
          THEN [v |-> Truncated(slice), err |-> r.err, fetches |-> r.fetches]
          ELSE buildSlice(T, slice, refs, i + 1, Append(acc, r.obj.p[1]),
                          path, env, st, r.fetches)

\* buildArray from slot i on; arr is the array so far: [v, err, fetches].
buildArray(T, arr, refs, i, path, env, st, fetches) ==
  IF i > Len(arr) THEN [v |-> arr, err |-> NoErr, fetches |-> fetches]
  ELSE LET el == ArraySlot(T, arr, i)
       IN IF i <= Len(refs)
          THEN LET r == Decode(PtrTo(T), AddrOf(el), refs[i], Append(path, <<"e", i>>),
                               env, st, fetches)
               IN IF r.err # NoErr
                  THEN [v |-> [arr EXCEPT ![i] = r.obj.p[1]], err |-> r.err,
                        fetches |-> r.fetches]
                  ELSE buildArray(T, [arr EXCEPT ![i] = r.obj.p[1]], refs, i + 1,
                                  path, env, st, r.fetches)
          ELSE buildArray(T, [arr EXCEPT ![i] = el], refs, i + 1, path, env, st, fetches)

\* buildMap: dst is a map with values of type T, refs the map of refs whose
\* keys the iteration still has to visit are ks: [v, err, fetches].
buildMap(T, dst, refs, ks, path, env, st, fetches) ==
  LET made == IF dst.nil THEN MkMap(<<>>) ELSE dst
  IN IF ks = <<>> THEN [v |-> made, err |-> NoErr, fetches |-> fetches]
     ELSE LET k == Head(ks)
              r == Decode(PtrTo(T), AddrOf(Zero(T)), refs[k], Append(path, <<"k", k>>),
                          env, st, fetches)
          IN IF r.err # NoErr THEN [v |-> made, err |-> r.err, fetches |-> r.fetches]
             ELSE buildMap(T,
                           MkMap([x \in DOMAIN made.m \cup {k} |->
                                    IF x = k THEN r.obj.p[1] ELSE made.m[x]]),
                           refs, Tail(ks), path, env, st, r.fetches)

\* The loop over the fields i.. of the struct sv of type T, is being the
\* intermediate struct: [v, err, fetches].
DecodeFields(T, sv, is, i, path, env, st, fetches) ==
  IF i > Len(T.fields) THEN [v |-> sv, err |-> NoErr, fetches |-> fetches]
  ELSE
    LET tf == T.fields[i]
        o == parseTag(tf).o
        field == sv[i]
        ifield == is[i]
        fpath == Append(path, <<"f", i>>)
        Then(r) == IF r.err # NoErr
                   THEN [v |-> [sv EXCEPT ![i] = r.v], err |-> r.err, fetches |-> r.fetches]
                   ELSE DecodeFields(T, [sv EXCEPT ![i] = r.v], is, i + 1, path, env, st,
                                     r.fetches)
    IN IF o.omit THEN DecodeFields(T, sv, is, i + 1, path, env, st, fetches)
       ELSE IF o.inline
       THEN DecodeFields(T, [sv EXCEPT ![i] = ifield], is, i + 1, path, env, st, fetches)
       ELSE IF ~o.external /\ tf.typ.k = "slice"
       THEN Then(buildSlice(Elem(tf.typ), field, ifield.a, 1, <<>>, fpath, env, st, fetches))
       ELSE IF ~o.external /\ tf.typ.k = "array"
       THEN Then(buildArray(Elem(tf.typ), field, ifield.a, 1, fpath, env, st, fetches))
       ELSE IF ~o.external /\ tf.typ.k = "map"
       THEN Then(buildMap(Elem(tf.typ), field, ifield.m, KeysInOrder(ifield.m, env.ord),
                          fpath, env, st, fetches))
       ELSE IF IsZero(TRef, ifield)
       THEN DecodeFields(T, sv, is, i + 1, path, env, st, fetches)
       ELSE LET r == Decode(PtrTo(tf.typ), AddrOf(Zero(tf.typ)), ifield, fpath, env, st,
                            fetches)
            IN IF r.err # NoErr THEN [v |-> sv, err |-> r.err, fetches |-> r.fetches]
               ELSE DecodeFields(T, [sv EXCEPT ![i] = r.obj.p[1]], is, i + 1, path, env, st,
                                 r.fetches)

(***************************************************************************)
(* The values the model encodes and the types it decodes into.             *)
(***************************************************************************)
\* The longest slice the model encodes.
MaxLen == 2

KeyC == Bytes(<<"c">>)

KeyB == Bytes(<<"b">>)

\* The orders a map iteration visits the keys in.
Orders == {"ascending", "descending"}

Foo == Bytes(<<"f", "o", "o">>)

\* A string with a byte that is not valid UTF-8.
Latin == Bytes(<<"f", BadByte>>)

TStrings == SliceOf(TString)

TInts == SliceOf(TInt)

TArr1 == ArrayOf(1, TInt)

TArr3 == ArrayOf(3, TInt)

TMap == MapOf(TInt)

TInner == StructOf(<<Field(<<"N">>, TInt)>>)

\* astruct of the tests, in parts: renamed, omitempty and skipped fields,
RA ==
  StructOf(<<Field(<<"A">>, TInt),
             Tagged(<<"B">>, <<"b", ",", "o", "m", "i", "t", "e", "m", "p", "t", "y">>, TInt),
             Tagged(<<"I">>, <<"-">>, TBool)>>)

\* a slice field and an external slice field,
RB ==
  StructOf(<<Field(<<"D">>, TStrings),
             Tagged(<<"E">>, <<",", "e", "x", "t", "e", "r", "n", "a", "l">>, TStrings)>>)

\* an omitempty pointer field, a field named "inline" and inline fields,
RC ==
  StructOf(<<Tagged(<<"F">>, <<",", "o", "m", "i", "t", "e", "m", "p", "t", "y">>, PtrTo(TInner)),
             Tagged(<<"G">>, <<"i", "n", "l", "i", "n", "e">>, TBool),
             Tagged(<<"H">>, <<",", "i", "n", "l", "i", "n", "e">>, TBool),
             Tagged(<<"S">>, <<",", "i", "n", "l", "i", "n", "e", ",",
                              "o", "m", "i", "t", "e", "m", "p", "t", "y">>, TString)>>)

\* omitempty container fields,
RD ==
  StructOf(<<Tagged(<<"M">>, <<",", "o", "m", "i", "t", "e", "m", "p", "t", "y">>, TMap),
             Tagged(<<"L">>, <<",", "o", "m", "i", "t", "e", "m", "p", "t", "y">>, TStrings)>>)

\* and a struct that stores a key "I".
RI ==
  StructOf(<<Field(<<"A">>, TInt),
             Tagged(<<"I">>, <<",", "i", "n", "l", "i", "n", "e">>, TBool)>>)

\* Container fields: a map, an external map and an array.
RM ==
  StructOf(<<Field(<<"M">>, TMap),
             Tagged(<<"X">>, <<",", "e", "x", "t", "e", "r", "n", "a", "l">>, TMap),
             Field(<<"R">>, TArr1)>>)

\* The struct RB with the option external on its other field.
RX ==
  StructOf(<<Tagged(<<"D">>, <<",", "e", "x", "t", "e", "r", "n", "a", "l">>, TStrings),
             Field(<<"E">>, TStrings)>>)

\* The types of the calls that decode the blob of one struct into another.
ShapeTypes == <<RB, RX>>

\* A pointer to a pointer.
TPP == PtrTo(PtrTo(TBool))

\* Pointer fields: plain, omitempty, inline and skipped.
RP ==
  StructOf(<<Field(<<"P">>, PtrTo(TInt)),
             Tagged(<<"Q">>, <<",", "o", "m", "i", "t", "e", "m", "p", "t", "y">>, PtrTo(TInt)),
             Tagged(<<"R">>, <<",", "i", "n", "l", "i", "n", "e">>, PtrTo(TInt)),
             Tagged(<<"Z">>, <<"-">>, PtrTo(TInt))>>)

\* Types with the methods PkMarshal and PkUnmarshal: a bool and a slice,
HB == Hooked(TBool)

HL == Hooked(SliceOf(TBool))

\* and a struct with fields of these types: plain, and external.
RH ==
  StructOf(<<Field(<<"N">>, HB),
             Field(<<"X">>, HL),
             Tagged(<<"Y">>, <<",", "e", "x", "t", "e", "r", "n", "a", "l">>, HL)>>)

\* The types of the calls that meet Marshalers and Unmarshalers.
HookTypes == <<HB, HL, SliceOf(HB), MapOf(HB), RH>>

\* The types of the values two calls of Marshal store at the same time.
PairTypes == <<TBool, TInts, TMap>>

\* The types of the calls whose store fails or whose ctx is cancelled.
FailTypes == <<TBool, TStrings, TMap, RB>>

\* The last store operation of a call that the store can fail, or that a
\* cancellation can come before.
MaxOp == 6

\* The types the model encodes values of and decodes into.  No two stored
\* names or map keys of the model differ only in case, so the match of a
\* JSON key with a field, which encoding/json makes without regard to
\* case, is the exact match here.
Types ==
  <<TBool, TInt, TInt8, TString, TStrings, TInts, TArr1, TArr3, TMap,
    PtrTo(TInt), PtrTo(TString), RA, RB, RC, RD, RI, PtrTo(RA), TPP, RP, RM>>

SeqsUpTo(S, n) == UNION {[1..k -> S] : k \in 0..n}

\* The most items a tag of the model has after its first.
MaxItems == 2

\* The first items of the tags of the model: none, a name, and "-".
TagHeads == {<<>>, <<"n">>, <<"-">>}

\* The later items: the options, no text, and words that are no options.
TagWords == {OptInline, OptExternal, OptOmitEmpty, <<>>, <<"x">>, <<"I", "n", "l", "i", "n", "e">>}

\* The values of the pk key of the tags of the model.
Tags == {Join(<<h>> \o w, <<",">>) : h \in TagHeads, w \in SeqsUpTo(TagWords, MaxItems)}

\* The struct fields parseTag is given: with no pk key and with each tag.
TagFields ==
  {Field(n, TBool) : n \in {<<"A">>, <<"I">>}}
    \cup {Tagged(n, t, TBool) : n \in {<<"A">>, <<"I">>}, t \in Tags}

RECURSIVE Values(_, _)
RECURSIVE FieldValues(_, _)

\* The values of type T the model encodes; d is the depth of the value
\* inside the value Encode is called with.
Values(T, d) ==
  CASE T.k = "bool" -> IF d < 2 THEN BOOLEAN ELSE {TRUE}
    [] T.k = "int" -> IF d = 0 THEN {0, -3, 300} ELSE IF d = 1 THEN {0, 17} ELSE {17}
    [] T.k = "int8" -> {-128, 17}
    [] T.k = "string" -> IF d = 0 THEN {<<>>, Foo, Latin} ELSE IF d = 1 THEN {<<>>, Latin}
                         ELSE {Latin}
    [] T.k = "slice" -> {NilSlice} \cup {MkSlice(a) : a \in SeqsUpTo(Values(Elem(T), d + 1), MaxLen)}
    [] T.k = "array" -> [1..T.n -> Values(Elem(T), d + 1)]
    [] T.k = "map" ->
         {NilMap} \cup {MkMap(m) : m \in UNION {[ks -> Values(Elem(T), d + 1)] : ks \in SUBSET {KeyC, KeyB}}}
    [] T.k = "ptr" -> {NilPtr} \cup {AddrOf(v) : v \in Values(Elem(T), d + 1)}
    [] T.k = "struct" -> FieldValues(T.fields, d + 1)

FieldValues(fs, d) ==
  IF fs = <<>> THEN {<<>>}
  ELSE {<<h>> \o t : h \in Values(Head(fs).typ, d), t \in FieldValues(Tail(fs), d)}

RECURSIVE Dirty(_)
\* A value of type T with no zero in it, for a destination that is not fresh.
Dirty(T) ==
  CASE T.k = "bool" -> TRUE
    [] T.k \in IntKinds -> 5
    [] T.k = "string" -> Foo
    [] T.k = "slice" -> MkSlice(<<Dirty(Elem(T))>>)
    [] T.k = "array" -> [i \in 1..T.n |-> Dirty(Elem(T))]
    [] T.k = "map" -> MkMap([k \in {KeyB} |-> Dirty(Elem(T))])
    [] T.k = "ptr" -> AddrOf(Dirty(Elem(T)))
    [] T.k = "struct" -> [i \in 1..Len(T.fields) |-> Dirty(T.fields[i].typ)]

(***************************************************************************)
(* The state: the blobs of the store, and the records of the calls made:   *)
(* one Encode (enc), then one Decode from the store (dec) and one more     *)
(* Encode (re), either of the same value again or of the value decoded.    *)
(***************************************************************************)
NoEnc == [done |-> FALSE, T |-> TBool, obj |-> FALSE, ord |-> "", ref |-> ZeroRef,
          err |-> NoErr, puts |-> <<>>]

NoDec == [done |-> FALSE, T |-> TBool, ref |-> ZeroRef, fresh |-> FALSE, ord |-> "",
          pre |-> FALSE, post |-> FALSE, err |-> NoErr, fetches |-> <<>>]

NoRe == [done |-> FALSE, kind |-> "", ord |-> "", ref |-> ZeroRef, err |-> NoErr,
         puts |-> <<>>, before |-> {}]

\* No other call is made.
NoCall == [op |-> ""]

RECURSIVE Iterates(_)
\* A value of type T can hold a map, which Encode and Decode iterate over.
Iterates(T) ==
  \/ T.k = "map"
  \/ T.k \in {"slice", "array", "ptr"} /\ Iterates(Elem(T))
  \/ T.k = "struct" /\ \E i \in 1..Len(T.fields) : Iterates(T.fields[i].typ)

\* The orders that tell the calls on a value of type T apart.
OrdersFor(T) == IF Iterates(T) THEN Orders ELSE {"ascending"}

\* The stores and contexts of these calls, for values of type T: a store
\* that fails one operation or none, and a ctx cancelled before one
\* operation, with a store that looks at ctx and one that does not.
EnvsFor(T) ==
  {[Env(o) EXCEPT !.failAt = n] : o \in OrdersFor(T), n \in 0..MaxOp}
    \cup {[Env(o) EXCEPT !.cancelAt = n, !.honours = h] :
            o \in OrdersFor(T), n \in 1..MaxOp, h \in BOOLEAN}

Blobs(puts) == {puts[i].blob : i \in 1..Len(puts)}

Init ==
  /\ store = {}
  /\ enc = NoEnc
  /\ dec = NoDec
  /\ re = NoRe
  /\ call = NoCall

\* Marshal(ctx, store, obj) for a value obj of type T.
DoEncode(T, obj, ord) ==
  /\ ~enc.done /\ call = NoCall
  /\ LET r == Encode(T, obj, <<>>, Env(ord), <<>>)
     IN /\ enc' = [done |-> TRUE, T |-> T, obj |-> obj, ord |-> ord, ref |-> r.ref,
                   err |-> r.err, puts |-> r.puts]
        /\ store' = store \cup Blobs(r.puts)
  /\ UNCHANGED <<dec, re, call>>

\* The same value marshaled a second time.
EncodeAgain(ord) ==
  /\ enc.done /\ ~dec.done /\ ~re.done /\ call = NoCall
  /\ LET r == Encode(enc.T, enc.obj, <<>>, Env(ord), <<>>)
     IN /\ re' = [done |-> TRUE, kind |-> "again", ord |-> ord, ref |-> r.ref,
                  err |-> r.err, puts |-> r.puts, before |-> store]
        /\ store' = store \cup Blobs(r.puts)
  /\ UNCHANGED <<enc, dec, call>>

\* Unmarshal(ctx, store, ref, obj) for a pointer obj to a value of type T,
\* fresh (reflect.New) or not.
DoDecode(ref, T, fresh, ord) ==
  /\ enc.done /\ ~dec.done /\ ~re.done /\ call = NoCall
  /\ LET obj == AddrOf(IF fresh THEN Zero(T) ELSE Dirty(T))
         r == Decode(PtrTo(T), obj, ref, <<>>, Env(ord), store, <<>>)
     IN dec' = [done |-> TRUE, T |-> PtrTo(T), ref |-> ref, fresh |-> fresh, ord |-> ord,
                pre |-> obj, post |-> r.obj, err |-> r.err, fetches |-> r.fetches]
  /\ UNCHANGED <<store, enc, re, call>>

\* Unmarshal of the Ref Encode returned into a destination of any type:
\* what is not a pointer, a nil pointer and a pointer to a value.
DecodeAny(T, obj, ord) ==
  /\ enc.done /\ enc.err = NoErr /\ ~dec.done /\ ~re.done /\ call = NoCall
  /\ LET r == Decode(T, obj, enc.ref, <<>>, Env(ord), store, <<>>)
     IN call' = [op |-> "Decode", T |-> T, ref |-> enc.ref, pre |-> obj, post |-> r.obj,
                 before |-> store, err |-> r.err, fetches |-> r.fetches]
  /\ UNCHANGED <<store, enc, dec, re>>

\* The value a Decode gave, marshaled.
ReEncode(ord) ==
  /\ dec.done /\ dec.err = NoErr /\ ~re.done
  /\ LET r == Encode(Elem(dec.T), dec.post.p[1], <<>>, Env(ord), <<>>)
     IN /\ re' = [done |-> TRUE, kind |-> "decoded", ord |-> ord, ref |-> r.ref,
                  err |-> r.err, puts |-> r.puts, before |-> store]
        /\ store' = store \cup Blobs(r.puts)
  /\ UNCHANGED <<enc, dec, call>>

Next ==
  \/ \E t \in 1..Len(Types) : \E obj \in Values(Types[t], 0) : \E ord \in OrdersFor(Types[t]) :
       DoEncode(Types[t], obj, ord)
  \/ \E ord \in OrdersFor(enc.T) : EncodeAgain(ord)
  \/ \E b \in store : \E t \in 1..Len(Types) : \E fresh \in BOOLEAN :
       \E ord \in OrdersFor(Types[t]) : DoDecode(RefOf(b), Types[t], fresh, ord)
  \/ \E ord \in OrdersFor(dec.T) : ReEncode(ord)

Spec == Init /\ [][Next]_vars

\* Marshal of a value and Unmarshal of its Ref into destinations of any type.
NextDest ==
  \/ \E t \in 1..Len(Types) : \E obj \in Values(Types[t], 0) :
       DoEncode(Types[t], obj, "ascending")
  \/ \E t \in 1..Len(Types) : \E obj \in {Zero(Types[t]), Dirty(Types[t])} :
       DecodeAny(Types[t], obj, "ascending")

SpecDest == Init /\ [][NextDest]_vars

\* Marshal and Unmarshal of values with Marshalers and Unmarshalers in them.
NextHook ==
  \/ \E t \in 1..Len(HookTypes) : \E obj \in Values(HookTypes[t], 0) :
       \E ord \in OrdersFor(HookTypes[t]) : DoEncode(HookTypes[t], obj, ord)
  \/ \E b \in store : \E t \in 1..Len(HookTypes) : \E fresh \in BOOLEAN :
       \E ord \in OrdersFor(HookTypes[t]) : DoDecode(RefOf(b), HookTypes[t], fresh, ord)

SpecHook == Init /\ [][NextHook]_vars

\* Marshal of a struct and Unmarshal of its blobs into structs whose fields
\* of the same names are stored in another shape.
NextShape ==
  \/ \E t \in 1..Len(ShapeTypes) : \E obj \in Values(ShapeTypes[t], 0) :
       DoEncode(ShapeTypes[t], obj, "ascending")
  \/ \E b \in store : \E t \in 1..Len(ShapeTypes) : \E fresh \in BOOLEAN :
       DoDecode(RefOf(b), ShapeTypes[t], fresh, "ascending")

SpecShape == Init /\ [][NextShape]_vars

\* Marshal of obj with a store and a ctx that may fail the call.
MarshalWith(T, obj, env) ==
  /\ ~enc.done /\ call = NoCall
  /\ LET r == Encode(T, obj, <<>>, env, <<>>)
     IN /\ call' = [op |-> "Marshal", T |-> T, obj |-> obj, env |-> env, ref |-> r.ref,
                    err |-> r.err, puts |-> r.puts, before |-> store]
        /\ store' = store \cup Stored(env, r.puts)
  /\ UNCHANGED <<enc, dec, re>>

\* Unmarshal of the Ref Encode returned into a fresh destination of the
\* type encoded, with a store and a ctx that may fail the call.
UnmarshalWith(env) ==
  /\ enc.done /\ enc.err = NoErr /\ call = NoCall
  /\ LET obj == AddrOf(Zero(enc.T))
         r == Decode(PtrTo(enc.T), obj, enc.ref, <<>>, env, store, <<>>)
     IN call' = [op |-> "Unmarshal", T |-> PtrTo(enc.T), ref |-> enc.ref, env |-> env,
                 pre |-> obj, post |-> r.obj, err |-> r.err, fetches |-> r.fetches,
                 before |-> store]
  /\ UNCHANGED <<store, enc, dec, re>>

\* Calls with stores that fail and contexts that are cancelled.
NextFail ==
  \/ \E t \in 1..Len(FailTypes) : \E obj \in Values(FailTypes[t], 0) :
       \E env \in EnvsFor(FailTypes[t]) : MarshalWith(FailTypes[t], obj, env)
  \/ \E t \in 1..Len(FailTypes) : \E obj \in Values(FailTypes[t], 0) :
       \E ord \in OrdersFor(FailTypes[t]) : DoEncode(FailTypes[t], obj, ord)
  \/ \E env \in EnvsFor(enc.T) : UnmarshalWith(env)

SpecFail == Init /\ [][NextFail]_vars

\* One call of Marshal as a process: the value, the order of its map
\* iterations, its result and the Puts it makes one after the other.  The
\* Puts do not depend on the store, which Encode never reads.
Marshaling(T, obj, ord) ==
  LET r == Encode(T, obj, <<>>, Env(ord), <<>>)
  IN [T |-> T, obj |-> obj, ord |-> ord, ref |-> r.ref, err |-> r.err, puts |-> r.puts]

\* Two calls of Marshal begin on the one store.
BeginTwo(a, b) ==
  /\ ~enc.done /\ call = NoCall
  /\ call' = [op |-> "two", a |-> a, b |-> b, ia |-> 0, ib |-> 0]
  /\ UNCHANGED <<store, enc, dec, re>>

\* The first call makes its next Put.
PutA ==
  /\ call.op = "two" /\ call.ia < Len(call.a.puts)
  /\ store' = store \cup {call.a.puts[call.ia + 1].blob}
  /\ call' = [call EXCEPT !.ia = @ + 1]
  /\ UNCHANGED <<enc, dec, re>>

\* The second call makes its next Put.
PutB ==
  /\ call.op = "two" /\ call.ib < Len(call.b.puts)
  /\ store' = store \cup {call.b.puts[call.ib + 1].blob}
  /\ call' = [call EXCEPT !.ib = @ + 1]
  /\ UNCHANGED <<enc, dec, re>>

\* Two calls of Marshal whose Puts interleave.
NextTwo ==
  \/ \E s \in 1..Len(PairTypes) : \E t \in 1..Len(PairTypes) :
       \E x \in Values(PairTypes[s], 0) : \E y \in Values(PairTypes[t], 0) :
         \E o \in OrdersFor(PairTypes[s]) : \E q \in OrdersFor(PairTypes[t]) :
           BeginTwo(Marshaling(PairTypes[s], x, o), Marshaling(PairTypes[t], y, q))
  \/ PutA
  \/ PutB

SpecTwo == Init /\ [][NextTwo]_vars

\* parseTag is about to be called on a field.
InitTag ==
  /\ store = {}
  /\ enc = NoEnc
  /\ dec = NoDec
  /\ re = NoRe
  /\ call \in {[op |-> "parseTag", f |-> f, done |-> FALSE, name |-> <<>>, o |-> NoOptions] :
                 f \in TagFields}

\* name, o := parseTag(tf)
ParseTag ==
  /\ call.op = "parseTag" /\ ~call.done
  /\ call' = [call EXCEPT !.done = TRUE, !.name = parseTag(call.f).name,
                          !.o = parseTag(call.f).o]
  /\ UNCHANGED <<store, enc, dec, re>>

NextTag == ParseTag

SpecTag == InitTag /\ [][NextTag]_vars

\* The most calls of Encode made one after the other on one store.
MaxCalls == 2

\* The values these calls encode: a slice, a map, a struct with a slice and
\* an external slice, a struct with a map, an external map and an array,
\* and a struct whose fields have the method PkMarshal.
SeqInputs ==
  {[T |-> TStrings, obj |-> MkSlice(<<Foo, Latin>>)],
   [T |-> TMap, obj |-> MkMap([k \in {KeyC, KeyB} |-> IF k = KeyC THEN 17 ELSE 0])],
   [T |-> RB, obj |-> <<MkSlice(<<Foo>>), MkSlice(<<Latin>>)>>],
   [T |-> RM, obj |-> <<MkMap([k \in {KeyC} |-> 17]), MkMap([k \in {KeyB} |-> 0]), <<300>>>>],
   [T |-> RH, obj |-> <<TRUE, MkSlice(<<TRUE>>), MkSlice(<<FALSE>>)>>]}

\* A call of Encode begins, on a store that fails one of its Puts or none.
\* The call before it may have made all its Puts or only some of them: it
\* goes no further.
BeginEncode(T, obj, env) ==
  /\ ~enc.done
  /\ call = NoCall \/ (call.op = "seq" /\ call.made < MaxCalls)
  /\ LET r == Encode(T, obj, <<>>, env, <<>>)
     IN /\ env.failAt <= Len(r.puts)
        /\ call' = [op |-> "seq", made |-> IF call = NoCall THEN 1 ELSE call.made + 1,
                    T |-> T, env |-> env, puts |-> r.puts, i |-> 0, before |-> store]
  /\ UNCHANGED <<store, enc, dec, re>>

\* The call makes its next Put, which the store carries out or fails.
PutNext ==
  /\ call.op = "seq" /\ call.i < Len(call.puts)
  /\ store' = IF StoreErr(call.env, call.i + 1, ErrPut) = NoErr
              THEN store \cup {call.puts[call.i + 1].blob}
              ELSE store
  /\ call' = [call EXCEPT !.i = @ + 1]
  /\ UNCHANGED <<enc, dec, re>>

\* Calls of Encode one after the other, each ended by its last Put, by the
\* failure of a Put, or part of the way.
NextSeq ==
  \/ \E c \in SeqInputs : \E o \in OrdersFor(c.T) : \E n \in 0..MaxOp :
       BeginEncode(c.T, c.obj, [Env(o) EXCEPT !.failAt = n])
  \/ PutNext

SpecSeq == Init /\ [][NextSeq]_vars

(***************************************************************************)
(* Properties.                                                             *)
(***************************************************************************)
\* The Decode is of the Ref the Encode returned, into a fresh destination
\* of the type of the value encoded.
RoundTrip ==
  /\ enc.done /\ enc.err = NoErr
  /\ dec.done /\ dec.ref = enc.ref /\ dec.T = PtrTo(enc.T) /\ dec.fresh

\* The value and the type Encode reaches through the pointers of enc.obj.
EncTyp == Deref(enc.T, enc.obj).T

EncVal == Deref(enc.T, enc.obj).v

True4 == Bytes(<<"t", "r", "u", "e">>)

\* The field carries the directive "-".
Skip(f) == f.hasTag /\ f.tag = <<"-">>

StoredName(f) == Bytes(parseTag(f).name)

\* The field is neither skipped nor (omitempty and zero).
Kept(f, v) == ~Skip(f) /\ ~(parseTag(f).o.omitEmpty /\ v = Zero(f.typ))

\* The keys of the JSON object a blob holds, in the order they are written.
ObjectKeys(blob) == LET r == JSONRead(blob) IN [n \in 1..Len(r.j.o) |-> r.j.o[n].k]

IsObject(blob) == LET r == JSONRead(blob) IN r.ok /\ r.j.t = "obj"

\* The value the JSON object of a blob holds under key name.
Member(blob, name) ==
  LET o == JSONRead(blob).j.o
  IN o[CHOOSE n \in 1..Len(o) : o[n].k = name].v

\* A call of Put or Fetch made for field i of the root record, or for a
\* part of it.
Under(path, i) == path # <<>> /\ path[1] = <<"f", i>>

\* C1: round-trip law: Encode(v) followed by Decode of the returned Ref into
\* a fresh zero destination of v's type succeeds and leaves the destination
\* equal to v.
C1_RoundTripLaw == RoundTrip => dec.err = NoErr /\ dec.post = AddrOf(enc.obj)

\* A null mapping is encoded, and the Decode of its Ref fails.
C1_NullMapFails ==
  RoundTrip /\ enc.T = TMap /\ enc.obj = NilMap /\ dec.err = ErrJSON

\* C2: determinism and idempotence: Encode of the same value a second time
\* returns what the first call returned, and the set of blobs of the store
\* after the second call is the set after the first.
C2_EncodeTwice ==
  re.done /\ re.kind = "again" => re.ref = enc.ref /\ re.err = enc.err /\ store = re.before

\* A map of two keys is encoded twice, iterated in two different orders.
C2_TwoOrders ==
  /\ re.done /\ re.kind = "again" /\ re.ord # enc.ord /\ enc.err = NoErr
  /\ enc.T = TMap /\ ~enc.obj.nil /\ Cardinality(DOMAIN enc.obj.m) = 2

\* C3: boolean boundary: Encode(false) stores the zero-length blob and
\* Encode(true) the 4-byte blob "true"; Decode of any Ref into a boolean
\* destination gives true exactly when the blob fetched is not empty.
C3_Boolean ==
  /\ enc.done /\ enc.T = TBool =>
       /\ enc.err = NoErr
       /\ enc.puts = <<[path |-> <<>>, blob |-> IF enc.obj THEN True4 ELSE <<>>]>>
       /\ enc.ref = RefOf(IF enc.obj THEN True4 ELSE <<>>)
       /\ Len(True4) = 4
  /\ dec.done /\ dec.T = PtrTo(TBool) =>
       dec.err = NoErr /\ dec.post = AddrOf(Len(dec.ref[1]) > 0)

\* A blob that is neither empty nor "true" is decoded as true.
C3_AnyBytesTrue ==
  /\ dec.done /\ dec.T = PtrTo(TBool) /\ dec.fresh
  /\ dec.ref[1] \notin {<<>>, True4}
  /\ dec.post = AddrOf(TRUE)

\* C4: key set of a record blob: the object Encode stores for a record has
\* exactly one key per field that is neither skipped nor (omitempty and
\* zero), the stored name of the field; the other fields cause no Put.
C4_KeySet ==
  enc.done /\ enc.err = NoErr /\ EncTyp.k = "struct" =>
    LET fs == EncTyp.fields
        blob == enc.ref[1]
        ks == ObjectKeys(blob)
    IN /\ IsObject(blob)
       /\ \A i \in 1..Len(fs) : Kept(fs[i], EncVal[i]) =>
            Cardinality({n \in 1..Len(ks) : ks[n] = StoredName(fs[i])}) = 1
       /\ \A n \in 1..Len(ks) : \E i \in 1..Len(fs) :
            Kept(fs[i], EncVal[i]) /\ ks[n] = StoredName(fs[i])
       /\ \A i \in 1..Len(fs) : ~Kept(fs[i], EncVal[i]) =>
            \A j \in 1..Len(enc.puts) : ~Under(enc.puts[j].path, i)

\* A record is encoded whose skipped field is not zero and whose omitempty
\* field is zero: two Puts, the field A and the record.
C4_OneKey ==
  /\ enc.done /\ enc.err = NoErr /\ enc.T = RA
  /\ enc.obj[2] = 0 /\ enc.obj[3] = TRUE
  /\ Len(enc.puts) = 2

\* C5: skipped field on decode: whatever the blob, Decode into a record
\* leaves a field tagged skip with the value it had before.
C5_SkipUntouched ==
  dec.done /\ Elem(dec.T).k = "struct" =>
    \A i \in 1..Len(Elem(dec.T).fields) :
      Skip(Elem(dec.T).fields[i]) => dec.post.p[1][i] = dec.pre.p[1][i]

\* A blob with a key "I" is decoded into a record that is not fresh, whose
\* field I is skipped: the field A is decoded, I is as it was.
C5_KeyOfSkipped ==
  /\ enc.done /\ enc.T = RI /\ enc.obj = <<17, FALSE>>
  /\ dec.done /\ dec.ref = enc.ref /\ dec.T = PtrTo(RA) /\ ~dec.fresh
  /\ dec.err = NoErr
  /\ dec.post.p[1][1] = 17 /\ dec.post.p[1][3] = TRUE

\* C6: absent key on decode: a non-skipped field whose stored name is no key
\* of the record blob is at its zero value after Decode into a fresh
\* destination, and no Fetch is made for it, whatever the kind of the field.
C6_AbsentKeyZero ==
  dec.done /\ dec.fresh /\ Elem(dec.T).k = "struct" /\ IsObject(dec.ref[1]) =>
    LET fs == Elem(dec.T).fields
        ks == ObjectKeys(dec.ref[1])
    IN \A i \in 1..Len(fs) :
         ~Skip(fs[i]) /\ (\A n \in 1..Len(ks) : ks[n] # StoredName(fs[i])) =>
           /\ dec.post.p[1][i] = Zero(fs[i].typ)
           /\ \A j \in 1..Len(dec.fetches) : ~Under(dec.fetches[j].path, i)

\* A record whose omitempty map field is null is encoded without the key,
\* and decoded with an empty map that is not null.
C6_NullMapBecomesEmpty ==
  /\ RoundTrip /\ enc.T = RD /\ enc.obj = <<NilMap, NilSlice>>
  /\ dec.err = NoErr
  /\ dec.post.p[1][1] = MkMap(<<>>)

\* The JSON literal of a boolean or a string.
Literal(T, v) == IF T.k = "bool" THEN JBool(v) ELSE JStr(v)

\* The field is tagged inline.
Inline(f) == parseTag(f).o.inline

\* C7: inline field: Encode puts the literal value of an inline field under
\* its stored name and makes no Put for it; Decode of the record makes no
\* Fetch for it and leaves the field equal to the value encoded.
C7_InlineField ==
  /\ enc.done /\ enc.err = NoErr /\ EncTyp.k = "struct" =>
       \A i \in 1..Len(EncTyp.fields) :
         LET f == EncTyp.fields[i]
         IN Inline(f) /\ Kept(f, EncVal[i]) =>
              /\ \A j \in 1..Len(enc.puts) : ~Under(enc.puts[j].path, i)
              /\ Member(enc.ref[1], StoredName(f)) = Literal(f.typ, EncVal[i])
  /\ RoundTrip /\ enc.T.k = "struct" /\ dec.err = NoErr =>
       \A i \in 1..Len(enc.T.fields) :
         LET f == enc.T.fields[i]
         IN Inline(f) /\ Kept(f, enc.obj[i]) =>
              /\ \A j \in 1..Len(dec.fetches) : ~Under(dec.fetches[j].path, i)
              /\ dec.post.p[1][i] = enc.obj[i]

\* An inline string with a byte that is not valid UTF-8 comes back with the
\* replacement rune in its place.
C7_ByteReplaced ==
  /\ RoundTrip /\ enc.T = RC /\ enc.obj[4] = Latin
  /\ dec.err = NoErr
  /\ dec.post.p[1][4] = <<Ch("f"), Ch(ReplacementRune)>>

\* The Refs of the list the blob of ref holds.
RefList(ref) == JSONDecode(SliceOf(TRef), ref[1]).v.a

\* The value Decode gives for ref in a fresh destination of type T.
Decoded(T, ref) ==
  Decode(PtrTo(T), AddrOf(Zero(T)), ref, <<>>, Env(dec.ord), store, <<>>).obj.p[1]

\* C8: fixed-length sequence decode: after a successful Decode of a list of
\* k Refs into an array of n slots, slot i holds the value decoded from the
\* i-th Ref for i < min(n, k), the slots from k on hold the zero value
\* whatever they held before, and no Ref from position n on is fetched.
C8_ArrayDecode ==
  dec.done /\ dec.err = NoErr /\ Elem(dec.T).k = "array" =>
    LET T == Elem(dec.T)
        refs == RefList(dec.ref)
    IN /\ \A i \in 1..T.n :
            dec.post.p[1][i] = IF i <= Len(refs) THEN Decoded(Elem(T), refs[i])
                               ELSE Zero(Elem(T))
       /\ \A j \in 1..Len(dec.fetches) :
            LET path == dec.fetches[j].path
            IN path = <<>> \/ \E i \in 1..T.n : i <= Len(refs) /\ path[1] = <<"e", i>>

\* A list of one Ref is decoded into an array of three slots, none of them
\* zero before.
C8_ShortList ==
  /\ enc.done /\ enc.T = TInts /\ enc.obj = MkSlice(<<17>>)
  /\ dec.done /\ dec.ref = enc.ref /\ dec.T = PtrTo(TArr3) /\ ~dec.fresh
  /\ dec.err = NoErr
  /\ dec.post = AddrOf(<<17, 0, 0>>)

\* C9: null sequence: Encode of a null sequence stores the empty blob, and
\* Decode of a Ref whose blob is empty into a sequence destination succeeds
\* and gives a null sequence.
C9_NullSequence ==
  /\ enc.done /\ EncTyp.k = "slice" /\ EncVal.nil =>
       enc.err = NoErr /\ enc.ref = RefOf(<<>>) /\ <<>> \in store
  /\ dec.done /\ Elem(dec.T).k = "slice" /\ dec.ref = RefOf(<<>>) =>
       dec.err = NoErr /\ dec.post = AddrOf(NilSlice)

\* The empty blob a null sequence was encoded as is decoded into a fresh
\* sequence, and Decode fails.
C9_EmptyBlobFails ==
  /\ RoundTrip /\ enc.T = TStrings /\ enc.obj = NilSlice
  /\ dec.ref = RefOf(<<>>)
  /\ dec.err = ErrJSON

\* C10: re-encode stability: a record encoded, decoded into a fresh
\* destination and encoded again has the blob, and so the Ref, of the first
\* Encode, whatever its skipped fields held.
C10_ReEncodeStable ==
  RoundTrip /\ EncTyp.k = "struct" =>
    /\ dec.err = NoErr
    /\ re.done /\ re.kind = "decoded" => re.err = NoErr /\ re.ref = enc.ref

\* A record whose omitempty map field is null is encoded, decoded and
\* encoded again: the second root Ref is another one.
C10_AnotherRoot ==
  /\ RoundTrip /\ enc.T = RD /\ enc.obj = <<NilMap, NilSlice>>
  /\ re.done /\ re.kind = "decoded" /\ re.err = NoErr
  /\ re.ref # enc.ref

\* Field i of the record Encode reaches holds a null pointer.
NullField(i) == EncTyp.fields[i].typ.k = "ptr" /\ EncVal[i] = NilPtr

\* The field is tagged omitempty.
OmitEmpty(f) == ~Skip(f) /\ parseTag(f).o.omitEmpty

\* The record blob is stored.
RecordStored == \E n \in 1..Len(enc.puts) : enc.puts[n].path = <<>>

\* C11, as stated: a chain of pointers that ends in a null pointer makes
\* Encode return the unsupported-type error with no Put, and a null pointer
\* field makes the Encode of its record fail unless the field is tagged
\* omitempty.
C11_OnlyOmitEmpty ==
  enc.done =>
    /\ EncTyp.k = "ptr" => enc.err = ErrUnsupportedType /\ enc.puts = <<>>
    /\ EncTyp.k = "struct" =>
         \A i \in 1..Len(EncTyp.fields) :
           NullField(i) /\ ~OmitEmpty(EncTyp.fields[i]) => enc.err # NoErr

\* C11, amended: a chain of pointers that ends in a null pointer makes
\* Encode return the unsupported-type error with no Put; a null pointer field
\* makes the Encode of its record fail with that error, and the record blob
\* is not stored, unless the field is tagged "-", omitempty or inline: then
\* no Put is made for the field, a "-" or omitempty field has no key, an
\* inline field has the literal null under its stored name, and the Encode
\* does not fail because of the field.
C11_NullReference ==
  enc.done =>
    /\ EncTyp.k = "ptr" =>
         enc.err = ErrUnsupportedType /\ enc.ref = ZeroRef /\ enc.puts = <<>>
    /\ EncTyp.k = "struct" =>
         /\ enc.err \in {NoErr, ErrUnsupportedType}
         /\ enc.err # NoErr <=>
              \E i \in 1..Len(EncTyp.fields) :
                LET f == EncTyp.fields[i]
                IN NullField(i) /\ ~Skip(f) /\ ~OmitEmpty(f) /\ ~Inline(f)
         /\ enc.err # NoErr => ~RecordStored /\ enc.ref = ZeroRef
         /\ \A i \in 1..Len(EncTyp.fields) :
              LET f == EncTyp.fields[i]
              IN NullField(i) =>
                   /\ \A n \in 1..Len(enc.puts) : ~Under(enc.puts[n].path, i)
                   /\ enc.err = NoErr =>
                        LET blob == enc.ref[1]
                            keys == ObjectKeys(blob)
                            has == \E n \in 1..Len(keys) : keys[n] = StoredName(f)
                        IN IF Skip(f) \/ OmitEmpty(f) THEN ~has
                           ELSE has /\ Member(blob, StoredName(f)) = JNull

\* A record with null pointers in its omitempty, inline and "-" fields is
\* encoded with no error.
C11_NullFieldsPass ==
  /\ enc.done /\ enc.T = RP /\ enc.err = NoErr
  /\ \A i \in 2..4 : NullField(i)
  /\ RecordStored

\* C12: destination validation before I/O: Decode into a destination that is
\* not a pointer returns the not-a-pointer error, Decode into a null pointer
\* returns the nil-pointer error, and in both cases no Fetch is made and
\* neither the destination nor the store is changed.
C12_DestinationChecked ==
  call.op = "Decode" =>
    /\ call.T.k # "ptr" => call.err = ErrNotPointer
    /\ call.T.k = "ptr" /\ call.pre = NilPtr => call.err = ErrNilPointer
    /\ call.T.k # "ptr" \/ call.pre = NilPtr =>
         call.fetches = <<>> /\ call.post = call.pre /\ store = call.before

\* Decode of a stored Ref into a record that is not behind a pointer and
\* holds values.
C12_RecordByValue ==
  /\ call.op = "Decode" /\ call.T = RA /\ call.pre = Dirty(RA)
  /\ call.ref[1] \in store /\ call.err = ErrNotPointer

RECURSIVE HookedIn(_, _, _)
\* The places [path, T, v] of the value v of type T at path where Encode
\* meets a value with PkMarshal that is not inside another such value: v
\* itself, an element, a map value, what a pointer points to, or a field
\* that is neither left out nor inline.
HookedIn(T, v, path) ==
  IF IsHooked(T) THEN {[path |-> path, T |-> T, v |-> v]}
  ELSE
    CASE T.k = "slice" ->
           UNION {HookedIn(Elem(T), v.a[i], Append(path, <<"e", i>>)) : i \in 1..Len(v.a)}
      [] T.k = "array" ->
           UNION {HookedIn(Elem(T), v[i], Append(path, <<"e", i>>)) : i \in 1..Len(v)}
      [] T.k = "map" ->
           UNION {HookedIn(Elem(T), v.m[key], Append(path, <<"k", key>>)) : key \in DOMAIN v.m}
      [] T.k = "ptr" -> IF v.nil THEN {} ELSE HookedIn(Elem(T), v.p[1], path)
      [] T.k = "struct" ->
           UNION {IF Kept(T.fields[i], v[i]) /\ ~Inline(T.fields[i])
                  THEN HookedIn(T.fields[i].typ, v[i], Append(path, <<"f", i>>))
                  ELSE {} : i \in 1..Len(T.fields)}
      [] OTHER -> {}

\* Path p is path q or leads to a part of what is at q.
Within(p, q) == Len(p) >= Len(q) /\ SubSeq(p, 1, Len(q)) = q

\* C13: custom hook precedence: for every value with PkMarshal that Encode
\* meets, at the top, as an element, as a map value or as a field (a slice
\* field that is not external included), the one Put made for it is the
\* hook's, and the Ref of a value encoded at the top is the hook's; in the
\* Decode of that Ref into a fresh destination of the same type every Fetch
\* for such a place is the hook's.
C13_HookFirst ==
  /\ enc.done /\ enc.err = NoErr =>
       /\ IsHooked(enc.T) => enc.ref = RefOf(HookBlob(enc.T, enc.obj))
       /\ \A h \in HookedIn(enc.T, enc.obj, <<>>) :
            /\ \E n \in 1..Len(enc.puts) :
                 enc.puts[n] = [path |-> HookPath(h.path), blob |-> HookBlob(h.T, h.v)]
            /\ \A n \in 1..Len(enc.puts) :
                 Within(enc.puts[n].path, h.path) => enc.puts[n].path = HookPath(h.path)
  /\ RoundTrip /\ dec.err = NoErr =>
       \A h \in HookedIn(enc.T, enc.obj, <<>>) :
         /\ \E n \in 1..Len(dec.fetches) : dec.fetches[n].path = HookPath(h.path)
         /\ \A n \in 1..Len(dec.fetches) :
              Within(dec.fetches[n].path, h.path) => dec.fetches[n].path = HookPath(h.path)

\* Encode of a record makes a Put for an element of a slice field whose
\* type has PkMarshal, and no Put of the hook for the field.
C13_HookBypassed ==
  /\ enc.done /\ enc.T = RH /\ enc.err = NoErr
  /\ \E n \in 1..Len(enc.puts) : enc.puts[n].path = <<<<"f", 2>>, <<"e", 1>>>>
  /\ \A n \in 1..Len(enc.puts) : enc.puts[n].path # HookPath(<<<<"f", 2>>>>)
  /\ \E n \in 1..Len(enc.puts) : enc.puts[n].path = HookPath(<<<<"f", 3>>>>)

\* A call of Marshal or Unmarshal with a store or a ctx of its own is made.
Called == call.op \in {"Marshal", "Unmarshal"}

\* The store operations the call issued, in order.
Ops == IF call.op = "Marshal" THEN call.puts ELSE call.fetches

\* The number of store operations the same call makes when no operation
\* fails and ctx is not cancelled.
CleanOps ==
  IF call.op = "Marshal"
  THEN Len(Encode(call.T, call.obj, <<>>, Env(call.env.ord), <<>>).puts)
  ELSE Len(Decode(call.T, call.pre, call.ref, <<>>, Env(call.env.ord), call.before, <<>>).fetches)

\* The store operations of the call that the store carried out.
Performed == {n \in 1..Len(Ops) : StoreErr(call.env, n, ErrPut) = NoErr}

\* ctx is cancelled before a store operation the call would make.
Cancelled == Called /\ call.env.cancelAt \in 1..CleanOps

\* C14: cancellation: when ctx is cancelled before a store operation of an
\* Encode or Decode, that operation and the later ones are not carried out,
\* the call returns the cancellation error, and the blobs stored before
\* the cancellation are in the store.
C14_Cancellation ==
  Cancelled =>
    /\ Performed = 1..(call.env.cancelAt - 1)
    /\ call.err = ErrCanceled
    /\ call.op = "Marshal" =>
         \A n \in 1..(call.env.cancelAt - 1) : call.puts[n].blob \in store

\* ctx is cancelled before the first Put of a Marshal whose store does not
\* look at ctx: every blob is stored and Marshal returns no error.
C14_CancelIgnored ==
  /\ Cancelled /\ call.op = "Marshal" /\ call.env.cancelAt = 1 /\ ~call.env.honours
  /\ call.err = NoErr /\ Len(call.puts) = CleanOps /\ CleanOps > 1
  /\ Valid(call.ref) /\ call.ref[1] \in store

\* Both calls have made all their Puts.
BothDone == call.op = "two" /\ call.ia = Len(call.a.puts) /\ call.ib = Len(call.b.puts)

\* What Encode gives for the value of call c when its map iterations take
\* order o, whatever the store holds.
Alone(c, o) == Encode(c.T, c.obj, <<>>, Env(o), <<>>)

\* What Decode of the Ref of call c gives, from the store as it is, when its
\* map iterations take order o.
Back(c, o) == Decode(PtrTo(c.T), AddrOf(Zero(c.T)), c.ref, <<>>, Env(o), store, <<>>)

\* C15: order independence: the Ref, the error and the set of blobs of an
\* Encode are the same for every order its map iterations take; when the
\* Puts of two Encode calls interleave on one store in any way, the store
\* holds in the end the blobs of the one call and of the other and no
\* others; and the value and error Decode gives for either Ref from that
\* store are the same for every order its map iterations take.
C15_OrderIndependent ==
  call.op = "two" =>
    \A c \in {call.a, call.b} :
      /\ \A o \in Orders :
           /\ Alone(c, o).ref = c.ref
           /\ Alone(c, o).err = c.err
           /\ Blobs(Alone(c, o).puts) = Blobs(c.puts)
      /\ BothDone =>
           /\ store = Blobs(call.a.puts) \cup Blobs(call.b.puts)
           /\ \A o \in Orders :
                /\ Back(c, o).obj = Back(c, "ascending").obj
                /\ Back(c, o).err = Back(c, "ascending").err

\* Two maps of two keys each, one a part of the other's blobs, have been
\* stored with their Puts interleaved and their iterations in opposite
\* orders.
C15_TwoMapsStored ==
  /\ BothDone
  /\ call.a.T = TMap /\ call.b.T = TMap /\ call.a.obj # call.b.obj
  /\ Len(call.a.puts) = 3 /\ Len(call.b.puts) = 3
  /\ call.a.ord # call.b.ord
  /\ call.a.err = NoErr /\ call.b.err = NoErr

\* The store fails a store operation the call makes.
Failing == Called /\ call.env.failAt \in 1..CleanOps

\* C16: fail-fast error propagation: when the store fails a Put of an Encode
\* or a Fetch of a Decode, the call returns the error, the failed operation
\* is the last store operation the call issues, and for an Encode no Ref is
\* returned, no blob was stored for a value the failed one is part of, and
\* the store holds only what the earlier Puts stored.
C16_FailFast ==
  Failing =>
    LET n == call.env.failAt
    IN /\ call.err = IF call.op = "Marshal" THEN ErrPut ELSE ErrFetch
       /\ Len(Ops) = n
       /\ call.op = "Marshal" =>
            /\ call.ref = ZeroRef
            /\ \A m \in 1..(n - 1) : ~Within(call.puts[n].path, call.puts[m].path)
            /\ store = call.before \cup {call.puts[m].blob : m \in 1..(n - 1)}

\* The Put of the second element of a slice field fails in a Marshal that
\* would go on to store more elements and the record.
C16_ElementPutFailed ==
  /\ Failing /\ call.op = "Marshal" /\ call.T = RB /\ call.env.failAt = 2
  /\ call.puts[2].path = <<<<"f", 1>>, <<"e", 2>>>>
  /\ CleanOps = 6 /\ call.err = ErrPut

\* The text of directive t before its first comma.
BeforeComma(t) ==
  IF \E i \in 1..Len(t) : t[i] = ","
  THEN SubSeq(t, 1, (CHOOSE i \in 1..Len(t) : t[i] = "," /\ \A j \in 1..(i - 1) : t[j] # ",") - 1)
  ELSE t

\* Word w is one of the comma-separated items of directive t after the
\* first: it stands between a comma and the next comma or the end.
HasItem(t, w) ==
  \E i \in 2..(Len(t) + 1) :
    LET j == i + Len(w) - 1
    IN /\ t[i - 1] = ","
       /\ j <= Len(t)
       /\ SubSeq(t, i, j) = w
       /\ j = Len(t) \/ t[j + 1] = ","

StoredRefs == JSONDecode(MapOf(TRef), dec.ref[1]).v.m

\* Decode into a pointer to a map has succeeded on a blob that holds a JSON
\* object.
MapDecoded ==
  /\ dec.done /\ dec.err = NoErr /\ Elem(dec.T).k = "map"
  /\ IsObject(dec.ref[1])

\* C18: mapping decode: after a successful Decode of an object of keys and
\* Refs into a map, nil or holding entries before the call, the keys of the
\* map are the keys of the object and each key has the value decoded from
\* its Ref.
C18_MapDecode ==
  MapDecoded =>
    LET m == dec.post.p[1]
    IN /\ ~m.nil
       /\ DOMAIN m.m = DOMAIN StoredRefs
       /\ \A key \in DOMAIN StoredRefs :
            m.m[key] = Decoded(Elem(Elem(dec.T)), StoredRefs[key])

\* Decode of an object with the one key "c" into a map that held an entry
\* under "b" leaves both keys in the map.
C18_OldEntryKept ==
  /\ MapDecoded /\ ~dec.fresh
  /\ DOMAIN StoredRefs = {KeyC}
  /\ DOMAIN dec.post.p[1].m = {KeyB, KeyC}
  /\ dec.post.p[1].m[KeyB] = dec.pre.p[1].m[KeyB]

\* The directive of the field has the option external.
External(f) == f.hasTag /\ f.tag # <<"-">> /\ HasItem(f.tag, OptExternal)

\* Field i of the record Encode reaches is a slice, an array or a map that
\* Encode neither leaves out nor takes inline.
ContainerField(i) ==
  LET f == EncTyp.fields[i]
  IN f.typ.k \in {"slice", "array", "map"} /\ Kept(f, EncVal[i]) /\ ~Inline(f)

\* What a call of Encode on value v of type T gives when nothing else is
\* encoded.
Top(T, v) == Encode(T, v, <<>>, Env(enc.ord), <<>>)

\* The elements of a slice or array value.
Items(T, v) == IF T.k = "slice" THEN v.a ELSE v

\* The JSON of the Refs of the parts of container v of type T: a list of
\* the Refs of the elements (null when there are none), or an object of the
\* keys and the Refs of their values.
RefsOf(T, v) ==
  IF T.k = "map"
  THEN LET ks == SortKeys(Ascending(DOMAIN v.m))
       IN JObj([n \in 1..Len(ks) |-> [k |-> ks[n], v |-> JRef(Top(Elem(T), v.m[ks[n]]).ref)]])
  ELSE IF Len(Items(T, v)) = 0 THEN JNull
  ELSE JArr([n \in 1..Len(Items(T, v)) |-> JRef(Top(Elem(T), Items(T, v)[n]).ref)])

\* C19: container fields of a record: for a slice, array or map field that
\* is not external, the record blob holds under the field's stored name the
\* list of the Refs of the elements, or the object of the keys and the Refs
\* of the values, and no Put is made for the container itself; for such a
\* field tagged external the Puts made for the field store what an Encode of
\* the container alone stores, the one Put for the container itself stores
\* the blob of that Encode, and the record blob holds its Ref under the
\* field's stored name.
C19_ContainerFields ==
  enc.done /\ enc.err = NoErr /\ EncTyp.k = "struct" =>
    \A i \in 1..Len(EncTyp.fields) :
      ContainerField(i) =>
        LET f == EncTyp.fields[i]
            own == {n \in 1..Len(enc.puts) : enc.puts[n].path = <<<<"f", i>>>>}
            all == {n \in 1..Len(enc.puts) : Under(enc.puts[n].path, i)}
            top == Top(f.typ, EncVal[i])
        IN IF External(f)
           THEN /\ Cardinality(own) = 1
                /\ \A n \in own : RefOf(enc.puts[n].blob) = top.ref
                /\ {enc.puts[n].blob : n \in all} = Blobs(top.puts)
                /\ Cardinality(all) = Len(top.puts)
                /\ Member(enc.ref[1], StoredName(f)) = JRef(top.ref)
           ELSE /\ own = {}
                /\ Cardinality(all) = Len(top.puts) - 1
                /\ Member(enc.ref[1], StoredName(f)) = RefsOf(f.typ, EncVal[i])

\* A record is encoded whose map field and external map field hold the same
\* two entries.
C19_MapTwice ==
  /\ enc.done /\ enc.err = NoErr /\ enc.T = RM
  /\ DOMAIN EncVal[1].m = {KeyB, KeyC} /\ EncVal[2] = EncVal[1]
  /\ Member(enc.ref[1], Bytes(<<"M">>)).t = "obj"
  /\ Member(enc.ref[1], Bytes(<<"X">>)).t = "str"

\* The blob holds a JSON object with the key name.
HasKey(blob, name) ==
  IsObject(blob) /\ \E n \in 1..Len(ObjectKeys(blob)) : ObjectKeys(blob)[n] = name

\* The blob Decode is given holds, under the stored name of field i of the
\* struct decoded into, a list where the field is stored as one Ref, or one
\* Ref where the field is stored as a list or an object of Refs.
Mismatch(i) ==
  LET f == Elem(dec.T).fields[i]
      blob == dec.ref[1]
      listed == ~External(f) /\ f.typ.k \in {"slice", "array", "map"}
  IN /\ ~Skip(f) /\ ~Inline(f)
     /\ HasKey(blob, StoredName(f))
     /\ Member(blob, StoredName(f)).t = IF listed THEN "str" ELSE "arr"

\* Decode is given a struct and a blob that holds a JSON object.
StructDecoded == dec.done /\ Elem(dec.T).k = "struct" /\ IsObject(dec.ref[1])

\* C20: shape mismatch: when the blob of a struct holds under a field's
\* stored name a list where one Ref is expected, or one Ref where a list or
\* an object of Refs is expected, Decode returns ErrDecoding; and Decode of
\* the blob Encode stored for a value into its own type does not return
\* ErrDecoding.
C20_ShapeMismatch ==
  StructDecoded =>
    /\ (\E i \in 1..Len(Elem(dec.T).fields) : Mismatch(i)) => dec.err = ErrDecoding
    /\ dec.ref = enc.ref /\ dec.T = PtrTo(enc.T) => dec.err # ErrDecoding

\* Decode of a blob with a list under "D" and a Ref under "E" into a struct
\* that stores D as a Ref and E as a list returns the error of the JSON
\* decoder.
C20_JSONError ==
  /\ StructDecoded /\ dec.T = PtrTo(RX)
  /\ Mismatch(1) /\ Mismatch(2)
  /\ dec.err = ErrJSON /\ Len(dec.fetches) = 1
\* A Decode into a pointer to a pointer, from a blob the store holds.
ToPointer == dec.done /\ ~re.done /\ Elem(dec.T).k = "ptr"

\* C21: a Decode into a destination that is a pointer gives the destination
\* and the error that a Decode from the same Ref gives for what the pointer
\* points to: a new zero value when the pointer is nil, and the value it
\* points to already, decoded in place, when it is not; the pointer is not
\* nil afterwards, whatever the error, and the same holds of the pointers in
\* a chain.
C21_PointerDestination ==
  ToPointer =>
    LET P == Elem(dec.T)
        cur == dec.pre.p[1]
        target == IF cur.nil THEN AddrOf(Zero(Elem(P))) ELSE cur
        r == Decode(P, target, dec.ref, <<>>, Env(dec.ord), store, <<>>)
    IN /\ dec.post = AddrOf(r.obj)
       /\ dec.err = r.err
       /\ ~dec.post.p[1].nil
       /\ dec.fetches = <<[path |-> <<>>, ref |-> dec.ref]>> \o r.fetches
       /\ P = PtrTo(RA) /\ ~cur.nil /\ dec.err = NoErr =>
            dec.post.p[1].p[1][3] = cur.p[1][3]
       /\ P = PtrTo(RA) /\ cur.nil /\ dec.err = NoErr =>
            dec.post.p[1].p[1][3] = FALSE

\* A nil pointer to a pointer to a bool is decoded into: both pointers are
\* made, and the bool is set from the blob, which is fetched three times.
C21_ChainMade ==
  /\ dec.done /\ dec.T = PtrTo(TPP) /\ dec.pre = AddrOf(NilPtr)
  /\ dec.err = NoErr /\ dec.post = AddrOf(AddrOf(AddrOf(TRUE)))
  /\ Len(dec.fetches) = 3

\* The one blob the Encode of a container without elements stores.
NullBlob == Bytes(<<"n", "u", "l", "l", "\n">>)

EmptyObjectBlob == Bytes(<<"{", "}", "\n">>)

\* Encode was given a slice or a map that is nil, or that is not nil and
\* has no elements.
NilContainer == enc.done /\ EncTyp.k \in {"slice", "map"} /\ EncVal.nil

EmptyContainer ==
  /\ enc.done /\ EncTyp.k \in {"slice", "map"} /\ ~EncVal.nil
  /\ IF EncTyp.k = "slice" THEN EncVal.a = <<>> ELSE DOMAIN EncVal.m = {}

\* The call stored one blob, b, and returned its Ref.
StoredOnly(b) ==
  /\ enc.err = NoErr /\ enc.ref = RefOf(b) /\ b \in store
  /\ Len(enc.puts) = 1 /\ enc.puts[1].blob = b

\* C22 as stated: Encode of a nil slice or map stores the empty blob, and
\* Encode of a slice or map that is not nil and has no elements stores the
\* blob that holds JSON null, so that the Refs differ.
C22_AbsenceToken ==
  /\ NilContainer => StoredOnly(<<>>)
  /\ EmptyContainer => StoredOnly(NullBlob) /\ enc.ref # RefOf(<<>>)

\* C22, amended: Encode of a nil slice or map stores the empty blob; Encode
\* of a slice that is not nil and has no elements stores the blob that holds
\* JSON null, and Encode of a map that is not nil and has no entries stores
\* the blob that holds the empty JSON object; in both cases the Ref is not
\* that of the nil container.
C22_NullAndEmpty ==
  /\ NilContainer => StoredOnly(<<>>)
  /\ EmptyContainer =>
       /\ StoredOnly(IF EncTyp.k = "slice" THEN NullBlob ELSE EmptyObjectBlob)
       /\ enc.ref # RefOf(<<>>)

\* A map that is not nil and has no entries was encoded: the store holds
\* the empty object.
C22_EmptyMapStored ==
  /\ EmptyContainer /\ enc.T = TMap /\ enc.obj = MkMap(<<>>)
  /\ enc.ref = RefOf(EmptyObjectBlob) /\ EmptyObjectBlob \in store

RECURSIVE JSONRefs(_)
\* The Refs a JSON value holds.
JSONRefs(j) ==
  CASE j.t = "str" -> IF Len(j.s) = 1 /\ IsRefText(j.s[1]) THEN {j.s[1].h} ELSE {}
    [] j.t = "arr" -> UNION {JSONRefs(j.a[i]) : i \in 1..Len(j.a)}
    [] j.t = "obj" -> UNION {JSONRefs(j.o[i].v) : i \in 1..Len(j.o)}
    [] OTHER -> {}

\* The Refs in a blob that holds a JSON list or object.
BlobRefs(b) ==
  LET r == JSONRead(b)
  IN IF r.ok /\ r.j.t \in {"arr", "obj"} THEN JSONRefs(r.j) ELSE {}

\* The store carried out Put n of the call.
PutDone(n) == n <= call.i /\ StoreErr(call.env, n, ErrPut) = NoErr

\* C23: after any calls of Encode on a store that was empty, whether they
\* ended well, failed at a Put or were given up part of the way, every Ref
\* in a blob of the store that holds a list or an object is the Ref of a
\* blob of the store; and every Put of such a blob comes after Puts, by the
\* same call and carried out by the store, of the blobs its Refs name, made
\* for parts of the value the blob is for.
C23_ReferentialClosure ==
  /\ \A b \in store : \A r \in BlobRefs(b) : r[1] \in store
  /\ call.op = "seq" =>
       \A n \in 1..Len(call.puts) :
         PutDone(n) =>
           \A r \in BlobRefs(call.puts[n].blob) :
             \E m \in 1..(n - 1) :
               /\ PutDone(m) /\ call.puts[m].blob = r[1]
               /\ Within(call.puts[m].path, call.puts[n].path)

\* The second call, of a struct, has failed at the Put of the list of its
\* external field: the elements are stored, the list and the struct are
\* not, and the store holds a blob with Refs from the call before.
C23_ParentNotStored ==
  /\ call.op = "seq" /\ call.made = 2 /\ call.T = RB
  /\ call.env.failAt = 3 /\ call.i = 3 /\ Len(call.puts) = 3
  /\ Foo \in store /\ Latin \in store
  /\ BlobRefs(call.puts[3].blob) = {RefOf(Latin)}
  /\ call.puts[3].blob \notin store
  /\ \E b \in store : BlobRefs(b) # {}

====
